---- MODULE Spec2Model ----
(***************************************************************************)
(* A model of db_context/database.py (class DatabaseConnector).            *)
(*                                                                         *)
(* The module holds several specifications over one set of variables, one  *)
(* per part of the connector:                                              *)
(*   SpecRank      _calculate_similarity / _filter_by_similarity           *)
(*   SpecFallback  _execute_cursor / _execute_with_fallback                *)
(*   SpecOps       the exposed operations, against a database that         *)
(*                 answers each driver call in any way                     *)
(*   SpecPool      concurrent callers of get_connection and the pool's     *)
(*                 construction                                            *)
(*   SpecRel       load_table_details and get_related_tables, against a    *)
(*                 database whose data dictionary holds primary, unique    *)
(*                 and foreign keys                                        *)
(*   SpecLife      get_connection, initialize_pool and close_pool called   *)
(*                 again and again by the tasks of one event loop          *)
(*   SpecLive      the callers of get_connection under fair scheduling,    *)
(*                 against a database that answers                         *)
(*   SpecSchema    an operation running statement by statement while       *)
(*                 target_schema is assigned by another task               *)
(*   SpecPlan      explain_query_plan called again and again on the        *)
(*                 sessions of the pool                                    *)
(* Each specification moves only its own variables; the others stay at     *)
(* their initial values.                                                   *)
(*                                                                         *)
(* Strings are sequences of one-character strings, so that upper(), the    *)
(* substring test and difflib's block matching are computed, not assumed.  *)
(***************************************************************************)
EXTENDS Integers, Sequences, FiniteSets, TLC

VARIABLES
    rk_items,     \* _filter_by_similarity: the argument `items` being built
    rk_term,      \* _filter_by_similarity: the argument `search_term`
    rk_pc,        \* "build" while the call's arguments are chosen, "ranked" after the call
    rk_results,   \* the list returned by _filter_by_similarity
    fb_all,       \* _execute_with_fallback: the driver's answer to all_query
    fb_user,      \* _execute_with_fallback: the driver's answer to user_query, were it run
    fb_thick,     \* self.thick_mode of the connector making the call
    fb_out,       \* the outcome of the last _execute_with_fallback call, NoCall before it
    op_thick,     \* self.thick_mode, fixed at construction
    op_target,    \* self.target_schema
    op_call,      \* the exposed operation called last and its arguments
    op_db,        \* the database behind the connection during that call
    op_out,       \* the outcome of that call, NoCall before the first
    catalog,      \* the data dictionary of the database (SpecRel): its constraints
    _pool,        \* DatabaseConnector._pool: None, or the pool constructed
    _pool_lock,   \* DatabaseConnector._pool_lock: its holder, None when free
    pl_pc,        \* where each caller is in its call
    pl_op,        \* the method each caller is in: get_connection, initialize_pool, close_pool
    pl_pool,      \* the pool object each caller's pending acquire() or close() is on
    pl_conn,      \* the pool each caller's connection was acquired from
    pl_created,   \* the create_pool / create_pool_async invocations, in order
    pl_entered,   \* the callers whose get_connection called initialize_pool
    pl_closed,    \* the close() calls on pools that have come back, with their results
    pl_calls,     \* the number of calls made on the connector
    es_call,      \* the operation in progress: its position, its local `schema`, the
                  \* owner bound to each statement it has executed
    pt_session,   \* the plan table of each session of the pool
    pt_call       \* the last explain_query_plan call: its session, query and outcome

rankVars == <<rk_items, rk_term, rk_pc, rk_results>>
fallbackVars == <<fb_all, fb_user, fb_thick, fb_out>>
opVars == <<op_thick, op_target, op_call, op_db, op_out>>
(* What each part leaves alone. *)
poolVars == <<_pool, _pool_lock, pl_pc, pl_op, pl_pool, pl_conn, pl_created, pl_entered,
              pl_closed, pl_calls>>
sessionVars == <<es_call, pt_session, pt_call>>
exceptRank == <<fallbackVars, opVars, catalog, poolVars, sessionVars>>
exceptFallback == <<rankVars, opVars, catalog, poolVars, sessionVars>>
exceptOps == <<rankVars, fallbackVars, catalog, poolVars, sessionVars>>
exceptOpsAndCatalog == <<rankVars, fallbackVars, poolVars, sessionVars>>
exceptPool == <<rankVars, fallbackVars, catalog, sessionVars>>
exceptSchema == <<rankVars, fallbackVars, catalog, poolVars, pt_session, pt_call>>
exceptPlan == <<rankVars, fallbackVars, catalog, poolVars, es_call>>
vars == <<rk_items, rk_term, rk_pc, rk_results, fb_all, fb_user, fb_thick, fb_out,
          op_thick, op_target, op_call, op_db, op_out, catalog,
          _pool, _pool_lock, pl_pc, pl_op, pl_pool, pl_conn, pl_created, pl_entered,
          pl_closed, pl_calls, es_call, pt_session, pt_call>>

(***************************************************************************)
(* Generic helpers                                                         *)
(***************************************************************************)
Min(S) == CHOOSE x \in S : \A y \in S : x <= y
Max(S) == CHOOSE x \in S : \A y \in S : x >= y

(***************************************************************************)
(* str.upper() on ASCII letters.                                           *)
(***************************************************************************)
LowerToUpper ==
    LET lower == <<"a", "b", "c", "d", "e", "f", "g", "h", "i", "j", "k", "l",
                  "m", "n", "o", "p", "q", "r", "s", "t", "u", "v", "w", "x",
                  "y", "z">>
        upper == <<"A", "B", "C", "D", "E", "F", "G", "H", "I", "J", "K", "L",
                  "M", "N", "O", "P", "Q", "R", "S", "T", "U", "V", "W", "X",
                  "Y", "Z">>
    IN [c \in {lower[i] : i \in 1..26} |->
           upper[CHOOSE i \in 1..26 : lower[i] = c]]

UpperChar(c) == IF c \in DOMAIN LowerToUpper THEN LowerToUpper[c] ELSE c

Upper(s) == [i \in 1..Len(s) |-> UpperChar(s[i])]

(***************************************************************************)
(* `x in y` on strings: x occurs in y as a contiguous block.               *)
(***************************************************************************)
IsSubstring(x, y) ==
    \E k \in 0..(Len(y) - Len(x)) : \A i \in 1..Len(x) : y[k + i] = x[i]

(***************************************************************************)
(* difflib.SequenceMatcher(None, a, b).  The strings are far shorter than  *)
(* 200 characters, so autojunk never applies and no character is junk.     *)
(*                                                                         *)
(* find_longest_match(alo, ahi, blo, bhi): the longest block               *)
(* a[i..i+k-1] = b[j..j+k-1] inside a[alo+1..ahi], b[blo+1..bhi]           *)
(* (half-open ranges as in Python, 1-based elements here); among the       *)
(* longest, the one starting earliest in a, and among those the one        *)
(* starting earliest in b.  k = 0 when no character matches.               *)
(***************************************************************************)
MatchingBlocksIn(a, b, alo, ahi, blo, bhi) ==
    {m \in ((alo + 1)..ahi) \X ((blo + 1)..bhi) \X (1..(ahi - alo)) :
        /\ m[1] + m[3] - 1 <= ahi
        /\ m[2] + m[3] - 1 <= bhi
        /\ \A d \in 0..(m[3] - 1) : a[m[1] + d] = b[m[2] + d]}

find_longest_match(a, b, alo, ahi, blo, bhi) ==
    LET blocks == MatchingBlocksIn(a, b, alo, ahi, blo, bhi) IN
    IF blocks = {} THEN <<alo + 1, blo + 1, 0>>
    ELSE LET k     == Max({m[3] : m \in blocks})
             besti == Min({m[1] : m \in {x \in blocks : x[3] = k}})
             bestj == Min({m[2] : m \in {x \in blocks : x[3] = k /\ x[1] = besti}})
         IN <<besti, bestj, k>>

(* get_matching_blocks(): the sum of the sizes of the blocks found by      *)
(* recursing to the left and to the right of each longest match.           *)
RECURSIVE MatchedChars(_, _, _, _, _, _)
MatchedChars(a, b, alo, ahi, blo, bhi) ==
    IF alo >= ahi \/ blo >= bhi THEN 0
    ELSE LET m == find_longest_match(a, b, alo, ahi, blo, bhi) IN
         IF m[3] = 0 THEN 0
         ELSE m[3]
              + MatchedChars(a, b, alo, m[1] - 1, blo, m[2] - 1)
              + MatchedChars(a, b, m[1] + m[3] - 1, ahi, m[2] + m[3] - 1, bhi)

(***************************************************************************)
(* Scores are exact fractions [num, den] (den > 0): ratio() is             *)
(* 2.0 * matches / (len(a) + len(b)), and 1.0 when both are empty.  For    *)
(* the lengths in the model two such floats compare as the fractions do.   *)
(***************************************************************************)
One == [num |-> 1, den |-> 1]

ScoreGeq(x, y) == x.num * y.den >= y.num * x.den
ScoreEq(x, y) == x.num * y.den = y.num * x.den

SequenceMatcherRatio(a, b) ==
    LET length == Len(a) + Len(b) IN
    IF length = 0 THEN One
    ELSE [num |-> 2 * MatchedChars(a, b, 0, Len(a), 0, Len(b)), den |-> length]

_calculate_similarity(s1, s2) == SequenceMatcherRatio(Upper(s1), Upper(s2))

(* threshold: float = 0.65 *)
ThresholdNum == 65
ThresholdDen == 100
Threshold == [num |-> ThresholdNum, den |-> ThresholdDen]

(***************************************************************************)
(* results.sort(key=lambda x: x[1], reverse=True): Python's sort is        *)
(* stable, also with reverse=True, so an element goes after every element  *)
(* whose key is >= its own.                                                *)
(***************************************************************************)
InsertDescUnstable(sorted, e) ==
    LET before == {i \in 1..Len(sorted) : ~ScoreGeq(e.score, sorted[i].score)}
        n == IF before = {} THEN 0 ELSE Max(before)
    IN SubSeq(sorted, 1, n) \o <<e>> \o SubSeq(sorted, n + 1, Len(sorted))

InsertDesc(sorted, e) ==
    LET before == {i \in 1..Len(sorted) : ScoreGeq(sorted[i].score, e.score)}
        n == IF before = {} THEN 0 ELSE Max(before)
    IN SubSeq(sorted, 1, n) \o <<e>> \o SubSeq(sorted, n + 1, Len(sorted))

RECURSIVE SortByScoreDesc(_)
SortByScoreDesc(results) ==
    IF results = <<>> THEN <<>>
    ELSE InsertDesc(SortByScoreDesc(SubSeq(results, 1, Len(results) - 1)),
                    results[Len(results)])

(***************************************************************************)
(* The loop of _filter_by_similarity over one item: the entry appended to  *)
(* `results`, if any.  `pos` is the item's index in `items`; it is not     *)
(* part of what Python returns and only tells occurrences apart.           *)
(***************************************************************************)
KeepsBelowThreshold(item, search_term, threshold) ==
    IF IsSubstring(Upper(search_term), Upper(item))
    THEN <<One>>
    ELSE <<_calculate_similarity(item, search_term)>>

ScoreOfItem(item, search_term, threshold) ==
    IF IsSubstring(Upper(search_term), Upper(item))
    THEN <<One>>
    ELSE LET similarity == _calculate_similarity(item, search_term) IN
         IF ScoreGeq(similarity, threshold) THEN <<similarity>> ELSE <<>>

RECURSIVE AppendMatches(_, _, _, _)
AppendMatches(items, search_term, threshold, upto) ==
    IF upto = 0 THEN <<>>
    ELSE LET s == ScoreOfItem(items[upto], search_term, threshold)
             rest == AppendMatches(items, search_term, threshold, upto - 1)
         IN IF s = <<>> THEN rest
            ELSE Append(rest, [name |-> items[upto], score |-> s[1], pos |-> upto])

_filter_by_similarity(items, search_term, threshold) ==
    SortByScoreDesc(AppendMatches(items, search_term, threshold, Len(items)))

(***************************************************************************)
(* SpecRank: the arguments of one call are built, then the call is made.   *)
(***************************************************************************)
MaxItems == 3

ORDER == <<"O", "R", "D", "E", "R">>
ORDERS == <<"O", "R", "D", "E", "R", "S">>
PRODUCT == <<"P", "R", "O", "D", "U", "C", "T">>
ORDRE == <<"O", "R", "D", "R", "E">>
ODRER == <<"O", "D", "R", "E", "R">>
abc == <<"a", "b", "c">>
xyz == <<"x", "y", "z">>
abd == <<"a", "b", "d">>
xbc == <<"x", "b", "c">>

CandidateNames == {ORDER, ORDERS, PRODUCT, ORDRE, ODRER, abc, xyz, abd, xbc}
SearchTerms == {ORDER, abc, <<"A", "b">>, <<"o", "r", "d", "e">>}

RankInit ==
    /\ rk_items = <<>>
    /\ rk_term \in SearchTerms
    /\ rk_pc = "build"
    /\ rk_results = <<>>

AddItem ==
    /\ rk_pc = "build"
    /\ Len(rk_items) < MaxItems
    /\ \E n \in CandidateNames : rk_items' = Append(rk_items, n)
    /\ UNCHANGED <<rk_term, rk_pc, rk_results>>
    /\ UNCHANGED exceptRank

Rank ==
    /\ rk_pc = "build"
    /\ rk_results' = _filter_by_similarity(rk_items, rk_term, Threshold)
    /\ rk_pc' = "ranked"
    /\ UNCHANGED <<rk_items, rk_term>>
    /\ UNCHANGED exceptRank

(***************************************************************************)
(* The driver.  A driver call either answers or raises.  An exception is   *)
(* [cls, code]: oracledb.DatabaseError carries the ORA- code in            *)
(* e.args[0].code; oracledb.InterfaceError is an oracledb.Error that is    *)
(* not a DatabaseError; TypeError is not an oracledb.Error at all.         *)
(***************************************************************************)
DatabaseError(code) == [cls |-> "DatabaseError", code |-> code]
InterfaceError == [cls |-> "InterfaceError", code |-> 0]
TypeError == [cls |-> "TypeError", code |-> 0]

IsDatabaseError(exc) == exc.cls = "DatabaseError"
IsOracleError(exc) == exc.cls \in {"DatabaseError", "InterfaceError"}

(* ORA-01031: insufficient privileges *)
InsufficientPrivileges == 1031

OkRows(rows) == [ok |-> TRUE, rows |-> rows]
Fails(exc) == [ok |-> FALSE, exc |-> exc]

Denied == Fails(DatabaseError(InsufficientPrivileges))
(* ORA-00942: table or view does not exist, standing for every other code *)
OtherDbError == Fails(DatabaseError(942))
NotConnected == Fails(InterfaceError)
DriverErrors == {Denied, OtherDbError, NotConnected}

(***************************************************************************)
(* The outcome of a call: what it returns or raises, and `log`, the driver *)
(* calls it made, in order.                                                *)
(***************************************************************************)
Return(val, log) == [kind |-> "return", val |-> val, log |-> log]
Raise(exc, log) == [kind |-> "raise", exc |-> exc, log |-> log]
NoCall == [kind |-> "none", log |-> <<>>]

Count(log, what) == Cardinality({i \in 1..Len(log) : log[i] = what})

(***************************************************************************)
(* _execute_cursor: cursor.execute(sql, **params) then cursor.fetchall(),  *)
(* called directly in thick mode and awaited in thin mode.  `resp` is what *)
(* the driver answers to the pair of calls, `query` names the statement.   *)
(***************************************************************************)
_execute_cursor(thick, query, resp) ==
    IF thick
    THEN IF resp.ok THEN Return(resp.rows, <<query>>) ELSE Raise(resp.exc, <<query>>)
    ELSE IF resp.ok THEN Return(resp.rows, <<query>>) ELSE Raise(resp.exc, <<query>>)

(***************************************************************************)
(* _execute_with_fallback.  `all` and `user` are the driver's answers to   *)
(* all_query and to user_query (the latter is used only if the query is    *)
(* run).                                                                   *)
(***************************************************************************)
FallbackOnAnyDatabaseError(thick, all, user) ==
    LET first == _execute_cursor(thick, "all_query", all) IN
    IF first.kind = "return" THEN first
    ELSE IF IsDatabaseError(first.exc)
         THEN LET second == _execute_cursor(thick, "user_query", user) IN
              IF second.kind = "return"
              THEN Return(second.val, first.log \o second.log)
              ELSE Return(<<>>, first.log \o second.log)
         ELSE first

FallbackDropsRows(thick, all, user) ==
    LET first == _execute_cursor(thick, "all_query", all) IN
    IF first.kind = "return" THEN first
    ELSE IF IsDatabaseError(first.exc) /\ first.exc.code = InsufficientPrivileges
         THEN LET second == _execute_cursor(thick, "user_query", user) IN
              IF second.kind = "return"
              THEN Return(<<>>, first.log \o second.log)
              ELSE IF IsDatabaseError(second.exc)
                      /\ second.exc.code = InsufficientPrivileges
                   THEN Return(<<>>, first.log \o second.log)
                   ELSE Raise(second.exc, first.log \o second.log)
         ELSE first

FallbackRaisesWhenBothDenied(thick, all, user) ==
    LET first == _execute_cursor(thick, "all_query", all) IN
    IF first.kind = "return" THEN first
    ELSE IF IsDatabaseError(first.exc) /\ first.exc.code = InsufficientPrivileges
         THEN LET second == _execute_cursor(thick, "user_query", user) IN
              IF second.kind = "return"
              THEN Return(second.val, first.log \o second.log)
              ELSE Raise(second.exc, first.log \o second.log)
         ELSE first

FallbackHidesRestrictedFailure(thick, all, user) ==
    LET first == _execute_cursor(thick, "all_query", all) IN
    IF first.kind = "return" THEN first
    ELSE IF IsDatabaseError(first.exc) /\ first.exc.code = InsufficientPrivileges
         THEN LET second == _execute_cursor(thick, "user_query", user) IN
              IF second.kind = "return"
              THEN Return(second.val, first.log \o second.log)
              ELSE IF IsDatabaseError(second.exc)
                   THEN Return(<<>>, first.log \o second.log)
                   ELSE Raise(first.exc, first.log \o second.log)
         ELSE first

_execute_with_fallback(thick, all, user) ==
    LET first == _execute_cursor(thick, "all_query", all) IN
    IF first.kind = "return" THEN first
    ELSE IF IsDatabaseError(first.exc)                       \* except oracledb.DatabaseError as e
         THEN IF first.exc.code = InsufficientPrivileges     \* error_obj.code == 1031
              THEN LET second == _execute_cursor(thick, "user_query", user) IN
                   IF second.kind = "return"
                   THEN Return(second.val, first.log \o second.log)
                   ELSE IF IsDatabaseError(second.exc)
                        THEN IF second.exc.code = InsufficientPrivileges
                             THEN Return(<<>>, first.log \o second.log)
                             ELSE Raise(second.exc, first.log \o second.log)   \* raise (e2)
                        ELSE Raise(second.exc, first.log \o second.log)
              ELSE first                                      \* raise (e)
         ELSE first

(***************************************************************************)
(* SpecFallback: calls of _execute_with_fallback with every pair of driver *)
(* answers.  Rows are sequences of at most MaxRows values.                 *)
(***************************************************************************)
MaxRows == 2

SeqsUpTo(S, n) == UNION {[1..k -> S] : k \in 0..n}

RowValues == {<<"r1">>, <<"r2">>}
QueryResponses == {OkRows(rows) : rows \in SeqsUpTo(RowValues, MaxRows)} \cup DriverErrors

FallbackInit ==
    /\ fb_all = OkRows(<<>>)
    /\ fb_user = OkRows(<<>>)
    /\ fb_thick \in BOOLEAN
    /\ fb_out = NoCall

ExecuteWithFallback ==
    \E all \in QueryResponses, user \in QueryResponses :
        /\ fb_all' = all
        /\ fb_user' = user
        /\ fb_out' = _execute_with_fallback(fb_thick, all, user)
        /\ UNCHANGED fb_thick
        /\ UNCHANGED exceptFallback

(***************************************************************************)
(* The exposed operations.                                                 *)
(*                                                                         *)
(* `db` is the database behind the connection.  A scripted database        *)
(* [kind |-> "script", r |-> ...] answers the n-th execution of a          *)
(* statement with r[statement][n], whatever the statement and its bind     *)
(* values are: every way the driver can answer is some script.             *)
(* r.acquire, r.close, r.commit answer pool.acquire(), conn.close() and    *)
(* conn.commit().                                                          *)
(***************************************************************************)
OkDone == [ok |-> TRUE]
OkConn(username) == [ok |-> TRUE, conn |-> [username |-> username]]

Column(rows, k) == [i \in 1..Len(rows) |-> rows[i][k]]
Range(seq) == {seq[i] : i \in 1..Len(seq)}

(***************************************************************************)
(* A database with a data dictionary, [kind |-> "catalog", cat |-> ...,    *)
(* user |-> ...], answers a statement by evaluating it over the            *)
(* dictionary.  cat.objects are the rows of ALL_OBJECTS (owner, name,      *)
(* type), cat.columns those of ALL_TAB_COLUMNS and cat.constraints those   *)
(* of ALL_CONSTRAINTS (owner, name, table, type, r_owner, r_name), each    *)
(* with `columns`, the constraint's columns in key order, from which the   *)
(* rows of ALL_CONS_COLUMNS follow.  r_owner and r_name are NoName (NULL)  *)
(* but for a foreign key.  The connected user may read all of it.          *)
(***************************************************************************)
NoName == <<>>

RECURSIVE SetToSeq(_)
SetToSeq(S) ==
    IF S = {} THEN <<>>
    ELSE LET x == CHOOSE x \in S : TRUE IN <<x>> \o SetToSeq(S \ {x})

all_cons_columns(cat) ==
    UNION {{[owner |-> c.owner, constraint_name |-> c.name, table_name |-> c.table,
             column_name |-> c.columns[k], position |-> k] : k \in 1..Len(c.columns)} :
           c \in cat.constraints}

(* SELECT object_type FROM all_objects WHERE owner = :owner                *)
(* AND object_name = :object_name AND object_type IN ('TABLE', 'VIEW')     *)
object_check_query(cat, binds) ==
    SetToSeq({<<o.type>> : o \in {o \in cat.objects :
                                     /\ o.owner = binds.owner
                                     /\ o.name = binds.object_name
                                     /\ o.type \in {"TABLE", "VIEW"}}})

(* SELECT column_name, data_type, nullable FROM all_tab_columns atc        *)
(* WHERE owner = :owner AND table_name = :table_name ORDER BY column_id    *)
columns_query(cat, binds) ==
    LET atc == {c \in cat.columns : c.owner = binds.owner /\ c.table = binds.table_name}
        nth(i) == CHOOSE c \in atc : Cardinality({d \in atc : d.id < c.id}) = i - 1
    IN [i \in 1..Cardinality(atc) |-> <<nth(i).name, nth(i).type, nth(i).nullable>>]

(* The rows of all_constraints ac JOIN all_cons_columns acc ON             *)
(* acc.constraint_name = ac.constraint_name AND acc.owner = ac.owner       *)
(* JOIN all_cons_columns rcc ON rcc.constraint_name = ac.r_constraint_name *)
(* AND rcc.owner = ac.r_owner WHERE ac.constraint_type = 'R'               *)
ForeignKeyJoin(cat) ==
    {j \in cat.constraints \X all_cons_columns(cat) \X all_cons_columns(cat) :
        /\ j[2].constraint_name = j[1].name
        /\ j[2].owner = j[1].owner
        /\ j[3].constraint_name = j[1].r_name
        /\ j[3].owner = j[1].r_owner
        /\ j[1].type = "R"}

(* The relationships statement of load_table_details: the OUTGOING rows,   *)
(* UNION ALL the INCOMING rows.                                            *)
relationships_query(cat, binds) ==
    LET outgoing == SetToSeq({j \in ForeignKeyJoin(cat) :
                                 /\ j[1].owner = binds.owner
                                 /\ j[1].table = binds.table_name})
        keys == {c.name : c \in {c \in cat.constraints :
                                    /\ c.owner = binds.owner
                                    /\ c.table = binds.table_name
                                    /\ c.type \in {"P", "U"}}}
        incoming == SetToSeq({j \in ForeignKeyJoin(cat) :
                                 /\ j[1].r_owner = binds.owner
                                 /\ j[1].r_name \in keys})
    IN [i \in 1..Len(outgoing) |->
           <<"OUTGOING", outgoing[i][2].column_name,
             outgoing[i][3].table_name, outgoing[i][3].column_name>>]
       \o [i \in 1..Len(incoming) |->
           <<"INCOMING", incoming[i][3].column_name,
             incoming[i][1].table, incoming[i][2].column_name>>]

(* SELECT DISTINCT acc.table_name FROM all_constraints ac                  *)
(* JOIN all_cons_columns acc ON acc.constraint_name = ac.r_constraint_name *)
(* AND acc.owner = ac.owner WHERE ac.constraint_type = 'R'                 *)
(* AND ac.table_name = :table_name AND ac.owner = :owner                   *)
referenced_tables_query(cat, binds) ==
    SetToSeq({<<j[2].table_name>> :
                j \in {j \in cat.constraints \X all_cons_columns(cat) :
                          /\ j[2].constraint_name = j[1].r_name
                          /\ j[2].owner = j[1].owner
                          /\ j[1].type = "R"
                          /\ j[1].table = binds.table_name
                          /\ j[1].owner = binds.owner}})

(* The row sources a statement's FROM clauses name, and the qualifiers its *)
(* column references use.  The referencing statement of get_related_tables *)
(* reads FROM pk_constraints JOIN pk_constraints pk and refers to          *)
(* ac.r_constraint_name, ac.table_name, ac.constraint_type and ac.owner.   *)
RowSources(query) ==
    CASE query = "object_check_query" -> {"all_objects"}
      [] query = "columns_query" -> {"atc"}
      [] query = "relationships_query" -> {"ac", "acc", "rcc", "all_constraints"}
      [] query = "referenced_tables_query" -> {"ac", "acc"}
      [] query = "referencing_tables_query" -> {"all_constraints", "pk_constraints", "pk"}

Qualifiers(query) ==
    CASE query = "object_check_query" -> {}
      [] query = "columns_query" -> {}
      [] query = "relationships_query" -> {"ac", "acc", "rcc"}
      [] query = "referenced_tables_query" -> {"ac", "acc"}
      [] query = "referencing_tables_query" -> {"ac", "pk"}

(* ORA-00904: invalid identifier *)
InvalidIdentifier == 904

(* The database parses the statement, then runs it. *)
ExecuteOnCatalog(cat, query, binds) ==
    IF ~(Qualifiers(query) \subseteq RowSources(query))
    THEN Fails(DatabaseError(InvalidIdentifier))
    ELSE CASE query = "object_check_query" -> OkRows(object_check_query(cat, binds))
           [] query = "columns_query" -> OkRows(columns_query(cat, binds))
           [] query = "relationships_query" -> OkRows(relationships_query(cat, binds))
           [] query = "referenced_tables_query" -> OkRows(referenced_tables_query(cat, binds))

Execute(db, query, nth, params) ==
    IF db.kind = "script" THEN db.r[query][nth] ELSE ExecuteOnCatalog(db.cat, query, params)
Acquire(db) == IF db.kind = "script" THEN db.r.acquire ELSE OkConn(db.user)
Close(db) == IF db.kind = "script" THEN db.r.close ELSE OkDone
Commit(db) == IF db.kind = "script" THEN db.r.commit ELSE OkDone

WithLog(pre, out) == [out EXCEPT !.log = pre \o @]

(* try: body finally: closing.  An exception of the finally clause         *)
(* replaces the outcome of the body.                                       *)
Finally(body, closing) ==
    IF closing.kind = "raise"
    THEN Raise(closing.exc, body.log \o closing.log)
    ELSE WithLog(body.log, [body EXCEPT !.log = closing.log])

(* get_connection, lines 62-69, the pool being ready (or its construction *)
(* failing, which raises as a failed acquire does): `resp` is the answer   *)
(* of pool.acquire().                                                      *)
get_connection(thick, resp) ==
    IF thick
    THEN IF resp.ok THEN Return(resp.conn, <<"acquire">>) ELSE Raise(resp.exc, <<"acquire">>)
    ELSE IF resp.ok THEN Return(resp.conn, <<"acquire">>) ELSE Raise(resp.exc, <<"acquire">>)

_close_connection_raises(thick, resp) ==
    IF resp.ok THEN Return("None", <<"close">>) ELSE Raise(resp.exc, <<"close">>)

(* _close_connection, the definition of lines 898-906 (it replaces the one *)
(* of lines 71-79): conn.close(), any Exception printed and dropped.       *)
_close_connection(thick, resp) ==
    IF thick
    THEN Return("None", <<"close">>)
    ELSE Return("None", <<"close">>)

(* _commit *)
_commit(thick, resp) ==
    IF thick
    THEN IF resp.ok THEN Return("None", <<"commit">>) ELSE Raise(resp.exc, <<"commit">>)
    ELSE IF resp.ok THEN Return("None", <<"commit">>) ELSE Raise(resp.exc, <<"commit">>)

(* _execute_cursor_no_fetch *)
_execute_cursor_no_fetch(thick, query, resp) ==
    IF thick
    THEN IF resp.ok THEN Return("None", <<query>>) ELSE Raise(resp.exc, <<query>>)
    ELSE IF resp.ok THEN Return("None", <<query>>) ELSE Raise(resp.exc, <<query>>)

(* Optional[str] *)
None == [some |-> FALSE]
Some(v) == [some |-> TRUE, v |-> v]

(* _get_effective_schema: `if self.target_schema` is false for None and    *)
(* for the empty string.                                                   *)
_get_effective_schema(target, conn) ==
    IF target.some /\ target.v # <<>> THEN Upper(target.v) ELSE Upper(conn.username)

(* get_effective_schema *)
get_effective_schema(thick, target, db) ==
    LET acq == get_connection(thick, Acquire(db)) IN
    IF acq.kind = "raise" THEN acq
    ELSE Finally(Return(_get_effective_schema(target, acq.val), acq.log),
                 _close_connection(thick, Close(db)))

(* get_database_info *)
get_database_info_try(thick, target, conn, db) ==
    LET version_info == _execute_cursor(thick, "version_query", Execute(db, "version_query", 1, <<>>)) IN
    IF version_info.kind = "raise" THEN version_info
    ELSE LET rows == version_info.val
             additional_info == Column(SubSeq(rows, 2, Len(rows)), 1)
         IN Return(
              IF rows = <<>> THEN [vendor |-> "", version |-> "", schema |-> <<>>,
                                   additional_info |-> <<>>, error |-> None]
              ELSE [vendor |-> "Oracle", version |-> rows[1][1],
                    schema |-> _get_effective_schema(target, conn),
                    additional_info |-> additional_info, error |-> None],
              version_info.log)

get_database_info(thick, target, db) ==
    LET acq == get_connection(thick, Acquire(db)) IN
    IF acq.kind = "raise" THEN acq
    ELSE LET try == get_database_info_try(thick, target, acq.val, db)
             caught ==
                 IF try.kind = "raise" /\ IsOracleError(try.exc)     \* except oracledb.Error as e
                 THEN Return([vendor |-> "Oracle", version |-> "Unknown", schema |-> <<>>,
                              additional_info |-> <<>>, error |-> Some(try.exc)], try.log)
                 ELSE try
         IN Finally(WithLog(acq.log, caught), _close_connection(thick, Close(db)))

(* The keyword arguments an operation gives to _execute_with_fallback,      *)
(* which hands the same **params to all_query and to user_query.           *)
FallbackParams(op, schema, args) ==
    IF op = "load_table_details"
    THEN [owner |-> schema, object_name |-> Upper(args[1])]
    ELSE [owner |-> schema]

(* The bind placeholders in the text of a statement. *)
DeclaredBinds(query) ==
    CASE query = "all_objects_query" -> {"owner"}
      [] query = "user_objects_query" -> {}
      [] query = "object_check_query" -> {"owner", "object_name"}
      [] query = "user_object_check_query" -> {"object_name"}

(* get_all_table_names *)
get_all_table_names(thick, target, db) ==
    LET acq == get_connection(thick, Acquire(db)) IN
    IF acq.kind = "raise" THEN acq
    ELSE LET schema == _get_effective_schema(target, acq.val)
             params == FallbackParams("get_all_table_names", schema, <<>>)
             objects == _execute_with_fallback(thick,
                            Execute(db, "all_objects_query", 1, params),
                            Execute(db, "user_objects_query", 1, params))
             try == IF objects.kind = "raise" THEN objects
                    ELSE Return(Range(Column(objects.val, 1)), objects.log)
         IN Finally(WithLog(acq.log, try), _close_connection(thick, Close(db)))


(* load_table_details: relationship_info, a dict from the related table's  *)
(* name to the list of its entries, in the order of the rows.              *)
RelationshipInfo(relationships) ==
    [t \in {relationships[i][3] : i \in 1..Len(relationships)} |->
        LET rows == SelectSeq(relationships, LAMBDA row : row[3] = t) IN
        [i \in 1..Len(rows) |->
            [local_column   |-> rows[i][2],
             foreign_column |-> rows[i][4],
             direction      |-> rows[i][1]]]]

ColumnInfo(columns) ==
    [i \in 1..Len(columns) |->
        [name |-> columns[i][1], type |-> columns[i][2], nullable |-> columns[i][3] = "Y"]]

load_table_details_try_any_type(thick, target, conn, table_name, db) ==
    LET schema == _get_effective_schema(target, conn)
        binds == [owner |-> schema, object_name |-> Upper(table_name)]
        object_info == _execute_with_fallback(thick,
                           Execute(db, "object_check_query", 1, binds),
                           Execute(db, "user_object_check_query", 1, binds))
    IN
    IF object_info.kind = "raise" THEN object_info
    ELSE IF object_info.val = <<>> THEN Return(None, object_info.log)
    ELSE
      LET params == [owner |-> schema, table_name |-> Upper(table_name)]
          columns == _execute_cursor(thick, "columns_query",
                                     Execute(db, "columns_query", 1, params))
          relationships == _execute_cursor(thick, "relationships_query",
                                           Execute(db, "relationships_query", 1, params))
      IN
      IF columns.kind = "raise" THEN WithLog(object_info.log, columns)
      ELSE IF relationships.kind = "raise"
      THEN WithLog(object_info.log \o columns.log, relationships)
      ELSE Return(Some([object_type   |-> object_info.val[1][1],
                        columns       |-> ColumnInfo(columns.val),
                        relationships |-> RelationshipInfo(relationships.val)]),
                  object_info.log \o columns.log \o relationships.log)

load_table_details_try(thick, target, conn, table_name, db) ==
    LET schema == _get_effective_schema(target, conn)
        binds == FallbackParams("load_table_details", schema, <<table_name>>)
        object_info == _execute_with_fallback(thick,
                           Execute(db, "object_check_query", 1, binds),
                           Execute(db, "user_object_check_query", 1, binds))
    IN
    IF object_info.kind = "raise" THEN object_info
    ELSE IF object_info.val = <<>> THEN Return(None, object_info.log)     \* return None
    ELSE
      LET object_type == object_info.val[1][1]
          params == [owner |-> schema, table_name |-> Upper(table_name)]
          columns == _execute_cursor(thick, "columns_query",
                                     Execute(db, "columns_query", 1, params))
      IN
      IF columns.kind = "raise" THEN WithLog(object_info.log, columns)
      ELSE IF object_type = "TABLE"
      THEN LET relationships == _execute_cursor(thick, "relationships_query",
                                    Execute(db, "relationships_query", 1, params))
           IN IF relationships.kind = "raise"
              THEN WithLog(object_info.log \o columns.log, relationships)
              ELSE Return(Some([object_type   |-> object_type,
                                columns       |-> ColumnInfo(columns.val),
                                relationships |-> RelationshipInfo(relationships.val)]),
                          object_info.log \o columns.log \o relationships.log)
      ELSE Return(Some([object_type   |-> object_type,
                        columns       |-> ColumnInfo(columns.val),
                        relationships |-> RelationshipInfo(<<>>)]),
                  object_info.log \o columns.log)

load_table_details_leaks(thick, target, table_name, db) ==
    LET acq == get_connection(thick, Acquire(db)) IN
    IF acq.kind = "raise" THEN acq
    ELSE LET try == load_table_details_try(thick, target, acq.val, table_name, db) IN
         IF try.kind = "return" /\ try.val = None
         THEN WithLog(acq.log, try)
         ELSE Finally(WithLog(acq.log, try), _close_connection(thick, Close(db)))

load_table_details_absent_raises(thick, target, table_name, db) ==
    LET acq == get_connection(thick, Acquire(db)) IN
    IF acq.kind = "raise" THEN acq
    ELSE LET try == load_table_details_try(thick, target, acq.val, table_name, db)
             absent == IF try.kind = "return" /\ try.val = None
                       THEN Raise(DatabaseError(InsufficientPrivileges), try.log)
                       ELSE try
         IN Finally(WithLog(acq.log, absent), _close_connection(thick, Close(db)))

load_table_details(thick, target, table_name, db) ==
    LET acq == get_connection(thick, Acquire(db)) IN
    IF acq.kind = "raise" THEN acq
    ELSE LET try == load_table_details_try(thick, target, acq.val, table_name, db)
             \* except oracledb.Error as e: print; raise
         IN Finally(WithLog(acq.log, try), _close_connection(thick, Close(db)))

(* get_pl_sql_objects *)
get_pl_sql_objects(thick, target, object_type, name_pattern, db) ==
    LET acq == get_connection(thick, Acquire(db)) IN
    IF acq.kind = "raise" THEN acq
    ELSE LET schema == _get_effective_schema(target, acq.val)
             params == IF name_pattern.some /\ name_pattern.v # <<>>
                       THEN [owner |-> schema, object_type |-> object_type,
                             name_pattern |-> Upper(name_pattern.v)]
                       ELSE [owner |-> schema, object_type |-> object_type]
             objects == _execute_cursor(thick, "plsql_objects_query",
                                        Execute(db, "plsql_objects_query", 1, params))
             try == IF objects.kind = "raise" THEN objects
                    ELSE Return([i \in 1..Len(objects.val) |->
                                    [name |-> objects.val[i][1], type |-> objects.val[i][2],
                                     status |-> objects.val[i][3], owner |-> schema]],
                                objects.log)
         IN Finally(WithLog(acq.log, try), _close_connection(thick, Close(db)))

(* get_object_source.  `await clob.read()`: in thin mode the read is a     *)
(* coroutine; in thick mode clob.read() runs and returns a str, and        *)
(* awaiting a str raises TypeError.                                        *)
AwaitClobRead(thick, resp) ==
    IF thick
    THEN IF resp.ok THEN Raise(TypeError, <<"clob.read">>) ELSE Raise(resp.exc, <<"clob.read">>)
    ELSE IF resp.ok THEN Return(resp.rows, <<"clob.read">>) ELSE Raise(resp.exc, <<"clob.read">>)

SourceText(text) == [text |-> text, error |-> None]

get_object_source_try(thick, target, conn, object_type, object_name, db) ==
    LET schema == _get_effective_schema(target, conn) IN
    IF object_type \in {"PACKAGE", "PACKAGE BODY", "TYPE", "TYPE BODY"}
    THEN LET source_lines == _execute_cursor(thick, "source_query",
                                 Execute(db, "source_query", 1,
                                         [owner |-> schema, name |-> object_name,
                                          type |-> object_type]))
         IN IF source_lines.kind = "raise" THEN source_lines
            ELSE Return(SourceText(Column(source_lines.val, 1)), source_lines.log)
    ELSE LET result == _execute_cursor(thick, "get_ddl_query",
                                 Execute(db, "get_ddl_query", 1,
                                         [object_type |-> object_type,
                                          object_name |-> object_name, owner |-> schema]))
         IN IF result.kind = "raise" THEN result
            ELSE IF result.val = <<>> THEN Return(SourceText(<<>>), result.log)
            ELSE WithLog(result.log,
                         LET read == AwaitClobRead(thick, Execute(db, "clob_read", 1, <<>>)) IN
                         IF read.kind = "raise" THEN read
                         ELSE Return(SourceText(read.val), read.log))

get_object_source(thick, target, object_type, object_name, db) ==
    LET acq == get_connection(thick, Acquire(db)) IN
    IF acq.kind = "raise" THEN acq
    ELSE LET try == get_object_source_try(thick, target, acq.val, object_type, object_name, db)
             caught ==
                 IF try.kind = "raise" /\ IsOracleError(try.exc)     \* except oracledb.Error as e
                 THEN Return([text |-> <<>>, error |-> Some(try.exc)], try.log)
                 ELSE try
         IN Finally(WithLog(acq.log, caught), _close_connection(thick, Close(db)))


(* get_table_constraints.  The loop over the constraints: `i` is the row   *)
(* being handled, `acc` the outcome so far (the result list and the log).  *)
TypeMap(constraint_type) ==
    CASE constraint_type = "P" -> "PRIMARY KEY"
      [] constraint_type = "R" -> "FOREIGN KEY"
      [] constraint_type = "U" -> "UNIQUE"
      [] constraint_type = "C" -> "CHECK"
      [] OTHER -> constraint_type

RECURSIVE get_table_constraints_loop(_, _, _, _, _, _)
get_table_constraints_loop(thick, schema, db, constraints, i, acc) ==
    IF i > Len(constraints) THEN acc
    ELSE
      LET row == constraints[i]
          binds == [owner |-> schema, constraint_name |-> row[1]]
          columns == _execute_cursor(thick, "cons_columns_query",
                                     Execute(db, "cons_columns_query", i, binds))
      IN
      IF columns.kind = "raise" THEN WithLog(acc.log, columns)
      ELSE
        LET ref_info == IF row[2] = "R"
                        THEN _execute_cursor(thick, "ref_info_query",
                                             Execute(db, "ref_info_query", i, binds))
                        ELSE Return(<<>>, <<>>)
        IN
        IF ref_info.kind = "raise" THEN WithLog(acc.log \o columns.log, ref_info)
        ELSE
          LET constraint_info ==
                  [name       |-> row[1],
                   type       |-> TypeMap(row[2]),
                   columns    |-> Column(columns.val, 1),
                   references |-> IF row[2] = "R" /\ ref_info.val # <<>>
                                  THEN Some([table   |-> ref_info.val[1][1],
                                             columns |-> Column(ref_info.val, 2)])
                                  ELSE None,
                   condition  |-> IF row[2] = "C" /\ row[3] # ""
                                  THEN Some(row[3]) ELSE None]
          IN get_table_constraints_loop(thick, schema, db, constraints, i + 1,
                 Return(Append(acc.val, constraint_info),
                        acc.log \o columns.log \o ref_info.log))

get_table_constraints(thick, target, table_name, db) ==
    LET acq == get_connection(thick, Acquire(db)) IN
    IF acq.kind = "raise" THEN acq
    ELSE LET schema == _get_effective_schema(target, acq.val)
             constraints == _execute_cursor(thick, "constraints_query",
                                Execute(db, "constraints_query", 1,
                                        [owner |-> schema, table_name |-> Upper(table_name)]))
             try == IF constraints.kind = "raise" THEN constraints
                    ELSE get_table_constraints_loop(thick, schema, db, constraints.val, 1,
                                                    Return(<<>>, constraints.log))
         IN Finally(WithLog(acq.log, try), _close_connection(thick, Close(db)))

(* get_table_indexes *)
RECURSIVE get_table_indexes_loop(_, _, _, _, _, _)
get_table_indexes_loop(thick, schema, db, indexes, i, acc) ==
    IF i > Len(indexes) THEN acc
    ELSE
      LET row == indexes[i]
          columns == _execute_cursor(thick, "ind_columns_query",
                                     Execute(db, "ind_columns_query", i,
                                             [owner |-> schema, index_name |-> row[1]]))
      IN
      IF columns.kind = "raise" THEN WithLog(acc.log, columns)
      ELSE
        LET index_info ==
                [name       |-> row[1],
                 unique     |-> row[2] = "UNIQUE",
                 tablespace |-> IF row[3] # "" THEN Some(row[3]) ELSE None,
                 status     |-> IF row[4] # "" THEN Some(row[4]) ELSE None,
                 columns    |-> Column(columns.val, 1)]
        IN get_table_indexes_loop(thick, schema, db, indexes, i + 1,
               Return(Append(acc.val, index_info), acc.log \o columns.log))

get_table_indexes(thick, target, table_name, db) ==
    LET acq == get_connection(thick, Acquire(db)) IN
    IF acq.kind = "raise" THEN acq
    ELSE LET schema == _get_effective_schema(target, acq.val)
             indexes == _execute_cursor(thick, "indexes_query",
                            Execute(db, "indexes_query", 1,
                                    [owner |-> schema, table_name |-> Upper(table_name)]))
             try == IF indexes.kind = "raise" THEN indexes
                    ELSE get_table_indexes_loop(thick, schema, db, indexes.val, 1,
                                                Return(<<>>, indexes.log))
         IN Finally(WithLog(acq.log, try), _close_connection(thick, Close(db)))

(* get_dependent_objects *)
get_dependent_objects(thick, target, object_name, db) ==
    LET acq == get_connection(thick, Acquire(db)) IN
    IF acq.kind = "raise" THEN acq
    ELSE LET schema == _get_effective_schema(target, acq.val)
             dependencies == _execute_cursor(thick, "dependencies_query",
                                 Execute(db, "dependencies_query", 1,
                                         [object_name |-> object_name, owner |-> schema]))
             \* except oracledb.Error as e: print; raise
             try == IF dependencies.kind = "raise" THEN dependencies
                    ELSE Return([i \in 1..Len(dependencies.val) |->
                                    [name  |-> dependencies.val[i][1],
                                     type  |-> dependencies.val[i][2],
                                     owner |-> dependencies.val[i][3]]],
                                dependencies.log)
         IN Finally(WithLog(acq.log, try), _close_connection(thick, Close(db)))

(* get_user_defined_types *)
RECURSIVE get_user_defined_types_loop(_, _, _, _, _, _)
get_user_defined_types_loop(thick, schema, db, types, i, acc) ==
    IF i > Len(types) THEN acc
    ELSE
      LET row == types[i]
          attrs == IF row[2] = "OBJECT"
                   THEN _execute_cursor(thick, "type_attrs_query",
                                        Execute(db, "type_attrs_query", i,
                                                [owner |-> schema, type_name |-> row[1]]))
                   ELSE Return(<<>>, <<>>)
      IN
      IF attrs.kind = "raise" THEN WithLog(acc.log, attrs)
      ELSE
        LET type_info ==
                [name          |-> row[1],
                 type_category |-> row[2],
                 owner         |-> schema,
                 attributes    |-> [k \in 1..Len(attrs.val) |->
                                       [name |-> attrs.val[k][1], type |-> attrs.val[k][2]]]]
        IN get_user_defined_types_loop(thick, schema, db, types, i + 1,
               Return(Append(acc.val, type_info), acc.log \o attrs.log))

get_user_defined_types(thick, target, type_pattern, db) ==
    LET acq == get_connection(thick, Acquire(db)) IN
    IF acq.kind = "raise" THEN acq
    ELSE LET schema == _get_effective_schema(target, acq.val)
             params == IF type_pattern.some /\ type_pattern.v # <<>>
                       THEN [owner |-> schema, type_pattern |-> Upper(type_pattern.v)]
                       ELSE [owner |-> schema]
             types == _execute_cursor(thick, "types_query",
                                      Execute(db, "types_query", 1, params))
             try == IF types.kind = "raise" THEN types
                    ELSE get_user_defined_types_loop(thick, schema, db, types.val, 1,
                                                     Return(<<>>, types.log))
         IN Finally(WithLog(acq.log, try), _close_connection(thick, Close(db)))


(* get_related_tables *)
get_related_tables_try(thick, target, conn, table_name, db) ==
    LET schema == _get_effective_schema(target, conn)
        params == [table_name |-> Upper(table_name), owner |-> schema]
        referenced_tables_result ==
            _execute_cursor(thick, "referenced_tables_query",
                            Execute(db, "referenced_tables_query", 1, params))
    IN
    IF referenced_tables_result.kind = "raise" THEN referenced_tables_result
    ELSE
      LET referencing_tables_result ==
              _execute_cursor(thick, "referencing_tables_query",
                              Execute(db, "referencing_tables_query", 1, params))
      IN
      IF referencing_tables_result.kind = "raise"
      THEN WithLog(referenced_tables_result.log, referencing_tables_result)
      ELSE Return([referenced_tables  |-> Column(referenced_tables_result.val, 1),
                   referencing_tables |-> Column(referencing_tables_result.val, 1)],
                  referenced_tables_result.log \o referencing_tables_result.log)

get_related_tables(thick, target, table_name, db) ==
    LET acq == get_connection(thick, Acquire(db)) IN
    IF acq.kind = "raise" THEN acq
    ELSE Finally(WithLog(acq.log,
                         get_related_tables_try(thick, target, acq.val, table_name, db)),
                 _close_connection(thick, Close(db)))

(* list[:limit] *)
SliceTo(seq, limit) ==
    IF limit >= 0
    THEN SubSeq(seq, 1, IF limit < Len(seq) THEN limit ELSE Len(seq))
    ELSE SubSeq(seq, 1, IF Len(seq) + limit > 0 THEN Len(seq) + limit ELSE 0)

(* search_in_database *)
search_in_database(thick, target, search_term, limit, db) ==
    LET acq == get_connection(thick, Acquire(db)) IN
    IF acq.kind = "raise" THEN acq
    ELSE LET schema == _get_effective_schema(target, acq.val)
             params == FallbackParams("search_in_database", schema, <<>>)
             all_objects == _execute_with_fallback(thick,
                                Execute(db, "all_objects_query", 1, params),
                                Execute(db, "user_objects_query", 1, params))
             try == IF all_objects.kind = "raise" THEN all_objects
                    ELSE LET object_names == Column(all_objects.val, 1)
                             matched_objects ==
                                 _filter_by_similarity(object_names, search_term, Threshold)
                         IN Return(SliceTo([i \in 1..Len(matched_objects) |->
                                               matched_objects[i].name], limit),
                                   all_objects.log)
         IN Finally(WithLog(acq.log, try), _close_connection(thick, Close(db)))

(* search_columns_in_database *)
ColumnsByTable(rows) ==
    [t \in {rows[i][1] : i \in 1..Len(rows)} |->
        LET of_table == SelectSeq(rows, LAMBDA row : row[1] = t) IN
        [i \in 1..Len(of_table) |->
            [name |-> of_table[i][2], type |-> of_table[i][3],
             nullable |-> of_table[i][4] = "Y"]]]

search_columns_in_database(thick, target, table_names, search_term, db) ==
    LET acq == get_connection(thick, Acquire(db)) IN
    IF acq.kind = "raise" THEN acq
    ELSE LET schema == _get_effective_schema(target, acq.val)
             rows == _execute_cursor(thick, "search_columns_query",
                         Execute(db, "search_columns_query", 1,
                                 [owner |-> schema, table_names |-> table_names,
                                  search_term |-> Upper(search_term)]))
             try == IF rows.kind = "raise" THEN rows
                    ELSE Return(ColumnsByTable(rows.val), rows.log)
         IN Finally(WithLog(acq.log, try), _close_connection(thick, Close(db)))

(* explain_query_plan.  `await cursor.execute(plan_statement)` does not go *)
(* through _execute_cursor_no_fetch: in thin mode execute is a coroutine;  *)
(* in thick mode execute() runs the statement and returns, and awaiting    *)
(* what it returned raises TypeError.                                      *)
AwaitCursorExecute(thick, query, resp) ==
    IF thick
    THEN IF resp.ok THEN Raise(TypeError, <<query>>) ELSE Raise(resp.exc, <<query>>)
    ELSE IF resp.ok THEN Return("None", <<query>>) ELSE Raise(resp.exc, <<query>>)

explain_query_plan_try_keeps_rows(thick, query, db) ==
    LET explain == AwaitCursorExecute(thick, "explain_plan", Execute(db, "explain_plan", 1, <<>>)) IN
    IF explain.kind = "raise" THEN explain
    ELSE
      LET plan_rows == _execute_cursor(thick, "plan_table_query",
                                       Execute(db, "plan_table_query", 1, <<>>)) IN
      IF plan_rows.kind = "raise" THEN WithLog(explain.log, plan_rows)
      ELSE
        LET commit == _commit(thick, Commit(db)) IN
        IF commit.kind = "raise"
        THEN WithLog(explain.log \o plan_rows.log, commit)
        ELSE Return([execution_plan |-> Column(plan_rows.val, 1),
                     optimization_suggestions |-> "basic_analysis",
                     error |-> None],
                    explain.log \o plan_rows.log \o commit.log)

explain_query_plan_try(thick, query, db) ==
    LET explain == AwaitCursorExecute(thick, "explain_plan", Execute(db, "explain_plan", 1, <<>>)) IN
    IF explain.kind = "raise" THEN explain
    ELSE
      LET plan_rows == _execute_cursor(thick, "plan_table_query",
                                       Execute(db, "plan_table_query", 1, <<>>)) IN
      IF plan_rows.kind = "raise" THEN WithLog(explain.log, plan_rows)
      ELSE
        LET delete == _execute_cursor_no_fetch(thick, "delete_plan_table",
                                               Execute(db, "delete_plan_table", 1, <<>>)) IN
        IF delete.kind = "raise" THEN WithLog(explain.log \o plan_rows.log, delete)
        ELSE
          LET commit == _commit(thick, Commit(db)) IN
          IF commit.kind = "raise"
          THEN WithLog(explain.log \o plan_rows.log \o delete.log, commit)
          ELSE Return([execution_plan |-> Column(plan_rows.val, 1),
                       optimization_suggestions |-> "basic_analysis",
                       error |-> None],
                      explain.log \o plan_rows.log \o delete.log \o commit.log)

explain_query_plan_reraises(thick, query, db) ==
    LET acq == get_connection(thick, Acquire(db)) IN
    IF acq.kind = "raise" THEN acq
    ELSE Finally(WithLog(acq.log, explain_query_plan_try(thick, query, db)),
                 _close_connection(thick, Close(db)))

explain_query_plan(thick, query, db) ==
    LET acq == get_connection(thick, Acquire(db)) IN
    IF acq.kind = "raise" THEN acq
    ELSE LET try == explain_query_plan_try(thick, query, db)
             caught ==
                 IF try.kind = "raise" /\ IsOracleError(try.exc)     \* except oracledb.Error as e
                 THEN Return([execution_plan |-> <<>>,
                              optimization_suggestions |-> "unable",
                              error |-> Some(try.exc)], try.log)
                 ELSE try
         IN Finally(WithLog(acq.log, caught), _close_connection(thick, Close(db)))


(***************************************************************************)
(* SpecOps: every exposed operation is called against scripted databases.  *)
(***************************************************************************)
Handler(call, thick, target, db) ==
    CASE call.op = "get_effective_schema" -> get_effective_schema(thick, target, db)
      [] call.op = "get_database_info" -> get_database_info(thick, target, db)
      [] call.op = "get_all_table_names" -> get_all_table_names(thick, target, db)
      [] call.op = "load_table_details" -> load_table_details(thick, target, call.args[1], db)
      [] call.op = "get_pl_sql_objects" ->
            get_pl_sql_objects(thick, target, call.args[1], call.args[2], db)
      [] call.op = "get_object_source" ->
            get_object_source(thick, target, call.args[1], call.args[2], db)
      [] call.op = "get_table_constraints" ->
            get_table_constraints(thick, target, call.args[1], db)
      [] call.op = "get_table_indexes" -> get_table_indexes(thick, target, call.args[1], db)
      [] call.op = "get_dependent_objects" ->
            get_dependent_objects(thick, target, call.args[1], db)
      [] call.op = "get_user_defined_types" ->
            get_user_defined_types(thick, target, call.args[1], db)
      [] call.op = "get_related_tables" -> get_related_tables(thick, target, call.args[1], db)
      [] call.op = "search_in_database" ->
            search_in_database(thick, target, call.args[1], call.args[2], db)
      [] call.op = "search_columns_in_database" ->
            search_columns_in_database(thick, target, call.args[1], call.args[2], db)
      [] call.op = "explain_query_plan" -> explain_query_plan(thick, call.args[1], db)

(* The answers of the scripted driver. *)
Username == <<"h">>
TargetSchemas == {None, Some(<<>>), Some(<<"x">>)}

Rows(S) == {OkRows(rows) : rows \in SeqsUpTo(S, MaxRows)}
UpToOneRow(S) == {OkRows(<<>>)} \cup {OkRows(<<row>>) : row \in S}

(* A script: pool.acquire() fails, or it succeeds and the body's           *)
(* statements are answered by one of `bodies`.                             *)
Script(r) == [kind |-> "script", r |-> r]
Scripts(bodies) ==
    {Script([acquire |-> a]) : a \in {NotConnected, OtherDbError}}
    \cup {Script([acquire |-> OkConn(Username), close |-> c] @@ b) :
             c \in {OkDone, NotConnected}, b \in bodies}

Called(op, args, db) ==
    /\ op_call.op = "none"
    /\ op_call' = [op |-> op, args |-> args]
    /\ op_db' = db
    /\ op_out' = Handler([op |-> op, args |-> args], op_thick, op_target, db)
    /\ UNCHANGED <<op_thick, op_target>>
    /\ UNCHANGED exceptOps

OpsInit ==
    /\ op_thick \in BOOLEAN
    /\ op_target \in TargetSchemas
    /\ op_call = [op |-> "none", args |-> <<>>]
    /\ op_db = Script([acquire |-> NotConnected])
    /\ op_out = NoCall

(* The caller has taken the outcome; the connector is ready for the next  *)
(* call (no operation keeps state in the connector between calls).         *)
CallReturned ==
    /\ op_call.op # "none"
    /\ op_call' = [op |-> "none", args |-> <<>>]
    /\ op_db' = Script([acquire |-> NotConnected])
    /\ op_out' = NoCall
    /\ UNCHANGED <<op_thick, op_target>>
    /\ UNCHANGED exceptOps

TableNameArgs == {<<"a">>}

CallGetEffectiveSchema ==
    \E db \in Scripts({<<>>}) : Called("get_effective_schema", <<>>, db)

CallGetDatabaseInfo ==
    \E db \in Scripts({[version_query |-> <<v>>] : v \in QueryResponses}) :
        Called("get_database_info", <<>>, db)


CallGetAllTableNames ==
    \E db \in Scripts({[all_objects_query |-> <<a>>, user_objects_query |-> <<u>>] :
                          a \in QueryResponses, u \in (UpToOneRow({<<"a">>}) \cup {Denied, OtherDbError})}) :
        Called("get_all_table_names", <<>>, db)


CallLoadTableDetails ==
    \E table_name \in TableNameArgs,
       db \in Scripts({[object_check_query |-> <<a>>, user_object_check_query |-> <<u>>,
                        columns_query |-> <<c>>, relationships_query |-> <<r>>] :
                          a \in UpToOneRow({<<"TABLE">>, <<"VIEW">>}) \cup {Denied, OtherDbError},
                          u \in UpToOneRow({<<"TABLE">>, <<"VIEW">>}) \cup {Denied, OtherDbError},
                          c \in UpToOneRow({<<"ID", "NUMBER", "N">>})
                                   \cup {Denied, OtherDbError, NotConnected},
                          r \in {OkRows(<<>>),
                                 OkRows(<<<<"OUTGOING", "B_ID", <<"B">>, "ID">>>>),
                                 OkRows(<<<<"OUTGOING", "B_ID", <<"B">>, "ID">>,
                                          <<"INCOMING", "ID", <<"B">>, "A_ID">>>>),
                                 Denied, OtherDbError}}) :
        Called("load_table_details", <<table_name>>, db)

CallGetPlSqlObjects ==
    \E name_pattern \in {None, Some(<<"a">>)},
       db \in Scripts({[plsql_objects_query |-> <<q>>] :
                          q \in Rows({<<"P1", "PROCEDURE", "VALID">>}) \cup DriverErrors}) :
        Called("get_pl_sql_objects", <<"PROCEDURE", name_pattern>>, db)

CallGetObjectSource ==
    \E object_type \in {"PACKAGE", "PROCEDURE"},
       db \in Scripts({[source_query |-> <<q>>, get_ddl_query |-> <<d>>, clob_read |-> <<c>>] :
                          q \in Rows({<<"line">>}) \cup DriverErrors,
                          d \in UpToOneRow({<<"clob">>}) \cup DriverErrors,
                          c \in {[ok |-> TRUE, rows |-> <<"ddl">>], OtherDbError}}) :
        Called("get_object_source", <<object_type, "P1">>, db)

PerRow(S) == [1..MaxRows -> S]

CallGetTableConstraints ==
    \E table_name \in TableNameArgs,
       db \in Scripts({[constraints_query |-> <<q>>, cons_columns_query |-> cc,
                        ref_info_query |-> ri] :
                          q \in Rows({<<"FK1", "R", "">>, <<"CK1", "C", "x > 0">>})
                                  \cup DriverErrors,
                          cc \in PerRow(UpToOneRow({<<"B_ID">>}) \cup {OtherDbError}),
                          ri \in PerRow({OkRows(<<<<"B", "ID">>>>), OtherDbError})}) :
        Called("get_table_constraints", <<table_name>>, db)

CallGetTableIndexes ==
    \E table_name \in TableNameArgs,
       db \in Scripts({[indexes_query |-> <<q>>, ind_columns_query |-> ic] :
                          q \in Rows({<<"IX1", "UNIQUE", "USERS", "VALID">>,
                                      <<"IX2", "NONUNIQUE", "", "">>}) \cup DriverErrors,
                          ic \in PerRow(UpToOneRow({<<"ID">>}) \cup {OtherDbError})}) :
        Called("get_table_indexes", <<table_name>>, db)

CallGetDependentObjects ==
    \E db \in Scripts({[dependencies_query |-> <<q>>] :
                          q \in Rows({<<"V1", "VIEW", <<"H">>>>}) \cup DriverErrors}) :
        Called("get_dependent_objects", <<"A">>, db)

CallGetUserDefinedTypes ==
    \E type_pattern \in {None, Some(<<"a">>)},
       db \in Scripts({[types_query |-> <<q>>, type_attrs_query |-> ta] :
                          q \in Rows({<<"T1", "OBJECT">>, <<"T2", "COLLECTION">>})
                                  \cup DriverErrors,
                          ta \in PerRow(UpToOneRow({<<"X", "NUMBER">>}) \cup {OtherDbError})}) :
        Called("get_user_defined_types", <<type_pattern>>, db)

CallGetRelatedTables ==
    \E table_name \in TableNameArgs,
       db \in Scripts({[referenced_tables_query |-> <<q>>, referencing_tables_query |-> <<g>>] :
                          q \in Rows({<<<<"B">>>>}) \cup DriverErrors,
                          g \in Rows({<<<<"B">>>>}) \cup DriverErrors}) :
        Called("get_related_tables", <<table_name>>, db)


CallSearchInDatabase ==
    \E search_term \in {abc}, limit \in {-1, 0, 1, 20},
       db \in Scripts({[all_objects_query |-> <<a>>, user_objects_query |-> <<u>>] :
                          a \in Rows({<<abd>>, <<abc>>}) \cup {Denied, OtherDbError},
                          u \in UpToOneRow({<<xbc>>}) \cup {Denied, OtherDbError}}) :
        Called("search_in_database", <<search_term, limit>>, db)

CallSearchColumnsInDatabase ==
    \E db \in Scripts({[search_columns_query |-> <<q>>] :
                          q \in Rows({<<<<"A">>, "ID", "NUMBER", "N">>,
                                      <<<<"B">>, "A_ID", "NUMBER", "Y">>}) \cup DriverErrors}) :
        Called("search_columns_in_database", <<<<<<"A">>, <<"B">>>>, <<"i", "d">>>>, db)


CallExplainQueryPlan ==
    \E db \in Scripts({[explain_plan |-> <<e>>, plan_table_query |-> <<q>>,
                        delete_plan_table |-> <<d>>, commit |-> c] :
                          e \in ({OkDone} \cup DriverErrors),
                          q \in Rows({<<"SELECT STATEMENT">>, <<"TABLE ACCESS FULL">>})
                                  \cup {OtherDbError},
                          d \in {OkDone, OtherDbError},
                          c \in {OkDone, NotConnected}}) :
        Called("explain_query_plan", <<"SELECT 1 FROM dual">>, db)


(***************************************************************************)
(* The database with a data dictionary: four tables in two schemas (one    *)
(* name is in both), the connected user's (H) and another (X), and the     *)
(* keys declared on them.                                                  *)
(***************************************************************************)
MaxConstraints == 3

DictionaryTables ==
    {[owner |-> <<"H">>, name |-> <<"A">>, type |-> "TABLE"],
     [owner |-> <<"H">>, name |-> <<"B">>, type |-> "TABLE"],
     [owner |-> <<"X">>, name |-> <<"C">>, type |-> "TABLE"],
     [owner |-> <<"X">>, name |-> <<"A">>, type |-> "TABLE"]}
DictionaryColumns ==
    {[owner |-> t.owner, table |-> t.name, name |-> <<"I", "D">>,
      type |-> "NUMBER", nullable |-> "N", id |-> 1] : t \in DictionaryTables}
    \cup {[owner |-> t.owner, table |-> t.name, name |-> <<"N", "O">>,
           type |-> "NUMBER", nullable |-> "Y", id |-> 2] : t \in DictionaryTables}
ConstraintNames == {<<"K", "1">>, <<"K", "2">>}
KeyColumnLists == {<<<<"I", "D">>>>, <<<<"I", "D">>, <<"N", "O">>>>}
ForeignKeyColumnLists == {<<<<"N", "O">>>>, <<<<"N", "O">>, <<"I", "D">>>>}

Dictionary(constraints) ==
    [objects |-> DictionaryTables, columns |-> DictionaryColumns, constraints |-> constraints]
CatalogDb(cat) == [kind |-> "catalog", cat |-> cat, user |-> Username]

CatalogInit == catalog = Dictionary({})

(* A constraint name is free in its owner's schema. *)
NameIsFree(owner, name) ==
    \A c \in catalog.constraints : ~(c.owner = owner /\ c.name = name)

(* ALTER TABLE t ADD CONSTRAINT name PRIMARY KEY / UNIQUE (columns) *)
AddKey ==
    /\ op_call.op = "none"
    /\ Cardinality(catalog.constraints) < MaxConstraints
    /\ \E t \in DictionaryTables, name \in ConstraintNames,
          type \in {"P", "U"}, columns \in KeyColumnLists :
          /\ NameIsFree(t.owner, name)
          /\ type = "P" =>
                 \A c \in catalog.constraints :
                     ~(c.owner = t.owner /\ c.table = t.name /\ c.type = "P")
          /\ catalog' = [catalog EXCEPT !.constraints = @ \cup
                 {[owner |-> t.owner, name |-> name, table |-> t.name, type |-> type,
                   r_owner |-> NoName, r_name |-> NoName, columns |-> columns]}]
    /\ UNCHANGED <<opVars, exceptOpsAndCatalog>>

(* ALTER TABLE t ADD CONSTRAINT name FOREIGN KEY (columns) REFERENCES the  *)
(* table and the columns of a declared key                                 *)
AddForeignKey ==
    /\ op_call.op = "none"
    /\ Cardinality(catalog.constraints) < MaxConstraints
    /\ \E t \in DictionaryTables, name \in ConstraintNames,
          key \in {c \in catalog.constraints : c.type \in {"P", "U"}},
          columns \in ForeignKeyColumnLists :
          /\ NameIsFree(t.owner, name)
          /\ Len(columns) = Len(key.columns)
          /\ catalog' = [catalog EXCEPT !.constraints = @ \cup
                 {[owner |-> t.owner, name |-> name, table |-> t.name, type |-> "R",
                   r_owner |-> key.owner, r_name |-> key.name, columns |-> columns]}]
    /\ UNCHANGED <<opVars, exceptOpsAndCatalog>>


RelInit ==
    /\ op_thick = FALSE
    /\ op_target \in {None, Some(<<"x">>)}
    /\ op_call = [op |-> "none", args |-> <<>>]
    /\ op_db = Script([acquire |-> NotConnected])
    /\ op_out = NoCall
    /\ CatalogInit

LoadTableDetailsOfCatalog ==
    \E table_name \in {<<"a">>, <<"b">>, <<"c">>} :
        Called("load_table_details", <<table_name>>, CatalogDb(catalog))

GetRelatedTablesOfCatalog ==
    \E table_name \in {<<"a">>, <<"b">>, <<"c">>} :
        Called("get_related_tables", <<table_name>>, CatalogDb(catalog))

(***************************************************************************)
(* The pool.  Callers of get_connection run as tasks of one event loop;    *)
(* a step of a task is the code between two points where it may yield      *)
(* (entering `async with self._pool_lock`, awaiting pool.acquire()).       *)
(* The steps below are no longer than that, so every interleaving of the   *)
(* tasks is one of the model.                                              *)
(***************************************************************************)
NumCallers == 3

Callers == 1..NumCallers

(* The body of initialize_pool under the lock (lines 34-55): the pool is   *)
(* constructed if self._pool is None, and a failed construction is         *)
(* re-raised.  `ok` is whether create_pool / create_pool_async succeeds.   *)
initialize_pool_unchecked(thick, pool, created, by, ok) ==
    [pool    |-> IF ok THEN Some(Len(created) + 1) ELSE pool,
     created |-> Append(created, [by |-> by, ok |-> ok, thick |-> thick]),
     raised  |-> ~ok]

(* A construction that is tried again, once, when it fails. *)
initialize_pool_retries(thick, pool, created, by, ok) ==
    IF pool = None
    THEN [pool    |-> IF ok THEN Some(Len(created) + 1) ELSE pool,
          created |-> IF ok
                      THEN Append(created, [by |-> by, ok |-> TRUE, thick |-> thick])
                      ELSE created \o << [by |-> by, ok |-> FALSE, thick |-> thick],
                                         [by |-> by, ok |-> FALSE, thick |-> thick] >>,
          raised  |-> ~ok]
    ELSE [pool |-> pool, created |-> created, raised |-> FALSE]

initialize_pool(thick, pool, created, by, ok) ==
    IF pool = None
    THEN IF thick
         THEN [pool    |-> IF ok THEN Some(Len(created) + 1) ELSE pool,   \* create_pool
               created |-> Append(created, [by |-> by, ok |-> ok, thick |-> TRUE]),
               raised  |-> ~ok]
         ELSE [pool    |-> IF ok THEN Some(Len(created) + 1) ELSE pool,   \* create_pool_async
               created |-> Append(created, [by |-> by, ok |-> ok, thick |-> FALSE]),
               raised  |-> ~ok]
    ELSE [pool |-> pool, created |-> created, raised |-> FALSE]

PoolInit ==
    /\ _pool = None
    /\ _pool_lock = None
    /\ pl_pc = [t \in Callers |-> "called"]
    /\ pl_op = [t \in Callers |-> "get_connection"]
    /\ pl_pool = [t \in Callers |-> None]
    /\ pl_conn = [t \in Callers |-> None]
    /\ pl_created = <<>>
    /\ pl_entered = {}
    /\ pl_closed = <<>>
    /\ pl_calls = NumCallers

(* A get_connection that takes the lock whether the pool is there or not. *)
CheckPoolAlwaysLocks(t) ==
    /\ pl_pc[t] = "called"
    /\ pl_op[t] = "get_connection"
    /\ pl_pc' = [pl_pc EXCEPT ![t] = "lock"]
    /\ pl_entered' = pl_entered \cup {t}
    /\ UNCHANGED <<_pool, _pool_lock, pl_op, pl_pool, pl_conn, pl_created, pl_closed, pl_calls>>
    /\ UNCHANGED <<opVars, exceptPool>>

(* get_connection, line 59: if self._pool is None: await initialize_pool() *)
CheckPool(t) ==
    /\ pl_pc[t] = "called"
    /\ pl_op[t] = "get_connection"
    /\ IF _pool = None
       THEN /\ pl_pc' = [pl_pc EXCEPT ![t] = "lock"]
            /\ pl_entered' = pl_entered \cup {t}
            /\ UNCHANGED pl_pool
       ELSE /\ pl_pc' = [pl_pc EXCEPT ![t] = "acquire"]
            /\ pl_pool' = [pl_pool EXCEPT ![t] = _pool]
            /\ UNCHANGED pl_entered
    /\ UNCHANGED <<_pool, _pool_lock, pl_op, pl_conn, pl_created, pl_closed, pl_calls>>
    /\ UNCHANGED <<opVars, exceptPool>>

(* initialize_pool, line 33: async with self._pool_lock (entry) *)
EnterLock(t) ==
    /\ pl_pc[t] = "lock"
    /\ _pool_lock = None
    /\ _pool_lock' = Some(t)
    /\ pl_pc' = [pl_pc EXCEPT ![t] = "locked"]
    /\ UNCHANGED <<_pool, pl_op, pl_pool, pl_conn, pl_created, pl_entered, pl_closed, pl_calls>>
    /\ UNCHANGED <<opVars, exceptPool>>

(* initialize_pool, lines 34-55, and the exit of the `async with`: the     *)
(* lock is released whether the body returns or raises.                    *)
InitializePool(t) ==
    /\ pl_pc[t] = "locked"
    /\ _pool_lock = Some(t)
    /\ \E ok \in BOOLEAN :
          LET done == initialize_pool(op_thick, _pool, pl_created, t, ok) IN
          /\ _pool' = done.pool
          /\ pl_created' = done.created
          /\ pl_pc' = [pl_pc EXCEPT ![t] =
                          IF done.raised THEN "raised"
                          ELSE IF pl_op[t] = "initialize_pool" THEN "returned"
                          ELSE "acquire"]
          /\ pl_pool' = [pl_pool EXCEPT ![t] =
                            IF pl_pc'[t] = "acquire" THEN done.pool ELSE None]
    /\ _pool_lock' = None
    /\ UNCHANGED <<pl_op, pl_conn, pl_entered, pl_closed, pl_calls>>
    /\ UNCHANGED <<opVars, exceptPool>>

(* Whether a close() of the pool object has returned normally. *)
IsClosed(closed, pool) ==
    \E i \in 1..Len(closed) : closed[i].pool = pool /\ closed[i].res = "ok"

(* get_connection, lines 62-69: self._pool.acquire(), awaited in thin      *)
(* mode; a failure is printed and re-raised.  The pool holds up to 10      *)
(* connections and NumCallers is less, so no caller waits for one.  A pool *)
(* that was closed gives no connection.                                    *)
AcquireFromPool(t) ==
    /\ pl_pc[t] = "acquire"
    /\ pl_pool[t] # None
    /\ \E ok \in (IF IsClosed(pl_closed, pl_pool[t]) THEN {FALSE} ELSE BOOLEAN) :
          IF ok
          THEN /\ pl_conn' = [pl_conn EXCEPT ![t] = pl_pool[t]]
               /\ pl_pc' = [pl_pc EXCEPT ![t] = "returned"]
          ELSE /\ pl_pc' = [pl_pc EXCEPT ![t] = "raised"]
               /\ UNCHANGED pl_conn
    /\ pl_pool' = [pl_pool EXCEPT ![t] = None]
    /\ UNCHANGED <<_pool, _pool_lock, pl_op, pl_created, pl_entered, pl_closed, pl_calls>>
    /\ UNCHANGED <<opVars, exceptPool>>

(***************************************************************************)
(* The life of the pool: get_connection, initialize_pool and close_pool    *)
(* called again and again by the tasks of one event loop (SpecLife).       *)
(***************************************************************************)
MaxCalls == 4

(* A close_pool that keeps self._pool after the close. *)
close_pool_keeps(pool, target, closed, ok) ==
    [pool   |-> pool,
     closed |-> Append(closed, [pool |-> target, res |-> IF ok THEN "ok" ELSE "failed"])]

(* close_pool, lines 84-92, from the moment close() comes back: `target`   *)
(* is the pool object it was called on and `pool` is self._pool by then.   *)
(* self._pool = None when close() returned; when it raised, the error is   *)
(* printed and dropped.                                                    *)
close_pool(pool, target, closed, ok) ==
    IF ok
    THEN [pool |-> None, closed |-> Append(closed, [pool |-> target, res |-> "ok"])]
    ELSE [pool |-> pool, closed |-> Append(closed, [pool |-> target, res |-> "failed"])]

LifeInit ==
    /\ _pool = None
    /\ _pool_lock = None
    /\ pl_pc = [t \in Callers |-> "idle"]
    /\ pl_op = [t \in Callers |-> "get_connection"]
    /\ pl_pool = [t \in Callers |-> None]
    /\ pl_conn = [t \in Callers |-> None]
    /\ pl_created = <<>>
    /\ pl_entered = {}
    /\ pl_closed = <<>>
    /\ pl_calls = 0

(* A task calls one of the three methods; the call it made before is over, *)
(* and the connection it had was given back by the operation that took it. *)
Call(t) ==
    /\ pl_pc[t] \in {"idle", "returned", "raised"}
    /\ pl_calls < MaxCalls
    /\ \E op \in {"get_connection", "initialize_pool", "close_pool"} :
          /\ pl_op' = [pl_op EXCEPT ![t] = op]
          /\ pl_pc' = [pl_pc EXCEPT ![t] = IF op = "initialize_pool" THEN "lock" ELSE "called"]
    /\ pl_calls' = pl_calls + 1
    /\ pl_conn' = [pl_conn EXCEPT ![t] = None]
    /\ pl_entered' = pl_entered \ {t}
    /\ UNCHANGED <<_pool, _pool_lock, pl_pool, pl_created, pl_closed>>
    /\ UNCHANGED <<opVars, exceptPool>>

(* close_pool up to its first suspension: nothing when self._pool is None *)
(* (line 82); in thick mode close() is synchronous and the method runs to  *)
(* its end; in thin mode the task is suspended at                          *)
(* `await self._pool.close()`.                                             *)
ClosePoolCall(t) ==
    /\ pl_pc[t] = "called"
    /\ pl_op[t] = "close_pool"
    /\ IF _pool = None
       THEN /\ pl_pc' = [pl_pc EXCEPT ![t] = "returned"]
            /\ UNCHANGED <<_pool, pl_pool, pl_closed>>
       ELSE IF op_thick
       THEN \E ok \in BOOLEAN :
               LET done == close_pool(_pool, _pool, pl_closed, ok) IN
               /\ _pool' = done.pool
               /\ pl_closed' = done.closed
               /\ pl_pc' = [pl_pc EXCEPT ![t] = "returned"]
               /\ UNCHANGED pl_pool
       ELSE /\ pl_pool' = [pl_pool EXCEPT ![t] = _pool]
            /\ pl_pc' = [pl_pc EXCEPT ![t] = "closing"]
            /\ UNCHANGED <<_pool, pl_closed>>
    /\ UNCHANGED <<_pool_lock, pl_op, pl_conn, pl_created, pl_entered, pl_calls>>
    /\ UNCHANGED <<opVars, exceptPool>>

(* close_pool in thin mode, resumed when close() has come back. *)
ClosePoolDone(t) ==
    /\ pl_pc[t] = "closing"
    /\ \E ok \in BOOLEAN :
          LET done == close_pool(_pool, pl_pool[t], pl_closed, ok) IN
          /\ _pool' = done.pool
          /\ pl_closed' = done.closed
    /\ pl_pc' = [pl_pc EXCEPT ![t] = "returned"]
    /\ pl_pool' = [pl_pool EXCEPT ![t] = None]
    /\ UNCHANGED <<_pool_lock, pl_op, pl_conn, pl_created, pl_entered, pl_calls>>
    /\ UNCHANGED <<opVars, exceptPool>>

(***************************************************************************)
(* The callers of get_connection on a database that answers (SpecLive):    *)
(* each caller is an exposed operation, which takes a connection, runs its *)
(* statements and gives the connection back in its `finally`.              *)
(***************************************************************************)
(* The pool is constructed with max=10; the model scales it down so that   *)
(* the callers outnumber the connections.                                  *)
MaxPoolSize == 2

(* The connections of the pool that are checked out. *)
CheckedOut(pool) == {t \in Callers : pl_conn[t] = pool}

(* In thick mode no driver call suspends the task: from acquire() to the   *)
(* close() of the connection the operation runs without any other task of  *)
(* the event loop running.                                                 *)
Runs(t) == op_thick => \A u \in Callers \ {t} : pl_pc[u] # "returned"

(* create_pool / create_pool_async succeeds. *)
Construct(t) == InitializePool(t) /\ pl_pc'[t] # "raised"

(* acquire() with getmode=POOL_GETMODE_WAIT (lines 42, 50): the caller     *)
(* waits while every connection of the pool is checked out, and no error   *)
(* is raised by the database.                                              *)
AcquireOrWait(t) ==
    /\ Cardinality(CheckedOut(pl_pool[t])) < MaxPoolSize
    /\ AcquireFromPool(t)
    /\ pl_pc'[t] = "returned"

(* An operation that ends without giving its connection back. *)
ReleaseKeeps(t) ==
    /\ pl_pc[t] = "returned"
    /\ pl_pc' = [pl_pc EXCEPT ![t] = "done"]
    /\ UNCHANGED <<_pool, _pool_lock, pl_op, pl_pool, pl_conn, pl_created, pl_entered,
                   pl_closed, pl_calls>>
    /\ UNCHANGED <<opVars, exceptPool>>

(* The rest of the operation: its statements, which terminate, and         *)
(* `finally: await self._close_connection(conn)`, which gives the          *)
(* connection back to the pool.                                            *)
Release(t) ==
    /\ pl_pc[t] = "returned"
    /\ pl_pc' = [pl_pc EXCEPT ![t] = "done"]
    /\ pl_conn' = [pl_conn EXCEPT ![t] = None]
    /\ UNCHANGED <<_pool, _pool_lock, pl_op, pl_pool, pl_created, pl_entered,
                   pl_closed, pl_calls>>
    /\ UNCHANGED <<opVars, exceptPool>>

(***************************************************************************)
(* An operation, statement by statement.  In thin mode every driver call   *)
(* is awaited, so another task of the event loop may run between two       *)
(* statements of one operation and assign connector.target_schema; in      *)
(* thick mode the operation runs from its call to its return without a     *)
(* yield.  _get_effective_schema itself awaits nothing.                    *)
(***************************************************************************)
ScopedOperations == {"get_all_table_names", "get_related_tables", "load_table_details"}

(* The statements of the operation that bind owner (load_table_details:    *)
(* the existence check, the columns and the relationships).                *)
ScopedStatements(op) ==
    CASE op = "get_all_table_names" -> 1
      [] op = "get_related_tables" -> 2
      [] op = "load_table_details" -> 3

NoOperation == [op |-> "none", pc |-> "idle", schema |-> <<>>, owners |-> <<>>]

BeginOperation ==
    /\ es_call.pc = "idle"
    /\ \E op \in ScopedOperations :
          es_call' = [op |-> op, pc |-> "get_connection", schema |-> <<>>, owners |-> <<>>]
    /\ UNCHANGED <<opVars, exceptSchema>>

(* conn = await self.get_connection(); schema = await                      *)
(* self._get_effective_schema(conn)                                        *)
ConnectionAcquired ==
    /\ es_call.pc = "get_connection"
    /\ \E ok \in BOOLEAN :
          es_call' = IF ok
                     THEN [es_call EXCEPT
                              !.pc = "statements",
                              !.schema = _get_effective_schema(op_target,
                                                               [username |-> Username])]
                     ELSE [es_call EXCEPT !.pc = "idle"]
    /\ UNCHANGED <<opVars, exceptSchema>>

ExecuteScopedRereads ==
    /\ es_call.pc = "statements"
    /\ Len(es_call.owners) < ScopedStatements(es_call.op)
    /\ \E ok \in BOOLEAN :
          es_call' = [es_call EXCEPT
                         !.owners = Append(@, _get_effective_schema(op_target,
                                                                    [username |-> Username])),
                         !.pc = IF ok THEN "statements" ELSE "close"]
    /\ UNCHANGED <<opVars, exceptSchema>>

(* await self._execute_cursor(cursor, ..., owner=schema, ...) *)
ExecuteScoped ==
    /\ es_call.pc = "statements"
    /\ Len(es_call.owners) < ScopedStatements(es_call.op)
    /\ \E ok \in BOOLEAN :
          es_call' = [es_call EXCEPT
                         !.owners = Append(@, es_call.schema),
                         !.pc = IF ok THEN "statements" ELSE "close"]
    /\ UNCHANGED <<opVars, exceptSchema>>

(* finally: await self._close_connection(conn) *)
CloseConnection ==
    /\ \/ es_call.pc = "close"
       \/ es_call.pc = "statements" /\ Len(es_call.owners) = ScopedStatements(es_call.op)
    /\ es_call' = [es_call EXCEPT !.pc = "idle"]
    /\ UNCHANGED <<opVars, exceptSchema>>

(* connector.target_schema = ..., by another task: between operations, or  *)
(* while a thin-mode operation waits for the driver.                       *)
SetTargetSchema ==
    /\ ~op_thick \/ es_call.pc = "idle"
    /\ \E target \in TargetSchemas : op_target' = target
    /\ UNCHANGED <<op_thick, op_call, op_db, op_out, es_call>>
    /\ UNCHANGED exceptSchema

(***************************************************************************)
(* explain_query_plan on the sessions of the pool.  The rows of            *)
(* plan_table belong to the session: EXPLAIN PLAN inserts the rows of the  *)
(* statement it explains in the session's open transaction, the SELECT     *)
(* reads every row the session sees, DELETE removes them, commit makes the *)
(* session's view durable, and conn.close() on a pooled connection rolls   *)
(* the open transaction back before the session returns to the pool; a     *)
(* session whose close() fails is dropped from the pool and replaced.  A   *)
(* call touches only the session it acquired, so the calls are taken one   *)
(* at a time.  A plan row is written as the query it was generated for.    *)
(***************************************************************************)
PoolSessions == {"s1", "s2"}
ExplainedQueries == {<<"q", "1">>, <<"q", "2">>}

NewSession == [visible |-> {}, committed |-> {}, failed |-> FALSE]

Ran(db, out, label) ==
    /\ Count(out.log, label) = 1
    /\ IF label \in {"commit", "close"} THEN db.r[label].ok ELSE db.r[label][1].ok

(* The session after the call whose outcome is `out`. *)
SessionAfter(session, query, db, out) ==
    LET explained == IF Ran(db, out, "explain_plan")
                     THEN session.visible \cup {query} ELSE session.visible
        deleted == IF Ran(db, out, "delete_plan_table") THEN {} ELSE explained
        committed == IF Ran(db, out, "commit") THEN deleted ELSE session.committed
    IN IF Count(out.log, "close") = 0 THEN session
       ELSE IF Ran(db, out, "close")
            THEN [visible |-> committed, committed |-> committed,
                  failed |-> session.failed
                             \/ (Ran(db, out, "explain_plan") /\ ~Ran(db, out, "commit"))]
            ELSE NewSession

(* The database a call on the session meets: plan_table_query answers with *)
(* the rows the session sees after the EXPLAIN PLAN of `query`.            *)
SessionDb(session, query, answers) ==
    Script([acquire |-> answers.acquire,
            explain_plan |-> <<answers.explain_plan>>,
            plan_table_query |->
                <<IF answers.plan_table_query.ok
                  THEN LET rows == SetToSeq(IF answers.explain_plan.ok
                                            THEN session.visible \cup {query}
                                            ELSE session.visible)
                       IN OkRows([i \in 1..Len(rows) |-> <<rows[i]>>])
                  ELSE answers.plan_table_query>>,
            delete_plan_table |-> <<answers.delete_plan_table>>,
            commit |-> answers.commit,
            close |-> answers.close])

StatementAnswers == {OkDone} \cup DriverErrors

NoPlanCall == [session |-> "none", query |-> <<>>, begin |-> {}, after_failure |-> FALSE,
               out |-> NoCall]

PlanInit ==
    /\ pt_session = [s \in PoolSessions |-> NewSession]
    /\ pt_call = NoPlanCall

ExplainQueryPlanOnSession ==
    \E s \in PoolSessions, query \in ExplainedQueries,
       acquire \in {OkConn(Username), NotConnected},
       explain_plan \in StatementAnswers, plan_table_query \in StatementAnswers,
       delete_plan_table \in StatementAnswers,
       commit \in {OkDone, OtherDbError}, close \in {OkDone, NotConnected} :
        LET db == SessionDb(pt_session[s], query,
                            [acquire |-> acquire, explain_plan |-> explain_plan,
                             plan_table_query |-> plan_table_query,
                             delete_plan_table |-> delete_plan_table,
                             commit |-> commit, close |-> close])
            out == explain_query_plan(op_thick, query, db)
        IN /\ pt_call' = [session |-> s, query |-> query,
                          begin |-> pt_session[s].visible,
                          after_failure |-> pt_session[s].failed,
                          out |-> out]
           /\ pt_session' = [pt_session EXCEPT ![s] = SessionAfter(@, query, db, out)]
           /\ UNCHANGED <<opVars, exceptPlan>>

(***************************************************************************)
(* Specifications                                                          *)
(***************************************************************************)
SchemaIdle == es_call = NoOperation

PlanIdle == pt_session = [s \in PoolSessions |-> NewSession] /\ pt_call = NoPlanCall

RankIdle == rk_items = <<>> /\ rk_term = ORDER /\ rk_pc = "build" /\ rk_results = <<>>

FallbackIdle ==
    fb_all = OkRows(<<>>) /\ fb_user = OkRows(<<>>) /\ fb_thick = FALSE /\ fb_out = NoCall

PoolIdle ==
    /\ _pool = None
    /\ _pool_lock = None
    /\ pl_pc = [t \in Callers |-> "called"]
    /\ pl_op = [t \in Callers |-> "get_connection"]
    /\ pl_pool = [t \in Callers |-> None]
    /\ pl_conn = [t \in Callers |-> None]
    /\ pl_created = <<>>
    /\ pl_entered = {}
    /\ pl_closed = <<>>
    /\ pl_calls = NumCallers

OpsIdle ==
    /\ op_thick = FALSE
    /\ op_target = None
    /\ op_call = [op |-> "none", args |-> <<>>]
    /\ op_db = Script([acquire |-> NotConnected])
    /\ op_out = NoCall

InitRank == RankInit /\ FallbackIdle /\ OpsIdle /\ CatalogInit /\ PoolIdle /\ SchemaIdle /\ PlanIdle

NextRank == AddItem \/ Rank

SpecRank == InitRank /\ [][NextRank]_vars

InitFallback == FallbackInit /\ RankIdle /\ OpsIdle /\ CatalogInit /\ PoolIdle /\ SchemaIdle /\ PlanIdle

NextFallback == ExecuteWithFallback

SpecFallback == InitFallback /\ [][NextFallback]_vars

InitOps == OpsInit /\ RankIdle /\ FallbackIdle /\ CatalogInit /\ PoolIdle /\ SchemaIdle /\ PlanIdle

NextOps ==
    \/ CallGetEffectiveSchema
    \/ CallGetDatabaseInfo
    \/ CallGetAllTableNames
    \/ CallLoadTableDetails
    \/ CallGetPlSqlObjects
    \/ CallGetObjectSource
    \/ CallGetTableConstraints
    \/ CallGetTableIndexes
    \/ CallGetDependentObjects
    \/ CallGetUserDefinedTypes
    \/ CallGetRelatedTables
    \/ CallSearchInDatabase
    \/ CallSearchColumnsInDatabase
    \/ CallExplainQueryPlan
    \/ CallReturned

SpecOps == InitOps /\ [][NextOps]_vars

InitRel == RelInit /\ RankIdle /\ FallbackIdle /\ PoolIdle /\ SchemaIdle /\ PlanIdle

NextRel ==
    \/ AddKey
    \/ AddForeignKey
    \/ LoadTableDetailsOfCatalog
    \/ GetRelatedTablesOfCatalog
    \/ CallReturned

SpecRel == InitRel /\ [][NextRel]_vars

InitPool ==
    /\ PoolInit
    /\ op_thick \in BOOLEAN
    /\ op_target = None
    /\ op_call = [op |-> "none", args |-> <<>>]
    /\ op_db = Script([acquire |-> NotConnected])
    /\ op_out = NoCall
    /\ RankIdle /\ FallbackIdle /\ CatalogInit /\ SchemaIdle /\ PlanIdle

NextPool ==
    \E t \in Callers :
        \/ CheckPool(t)
        \/ EnterLock(t)
        \/ InitializePool(t)
        \/ AcquireFromPool(t)

SpecPool == InitPool /\ [][NextPool]_vars

InitLife ==
    /\ LifeInit
    /\ op_thick \in BOOLEAN
    /\ op_target = None
    /\ op_call = [op |-> "none", args |-> <<>>]
    /\ op_db = Script([acquire |-> NotConnected])
    /\ op_out = NoCall
    /\ RankIdle /\ FallbackIdle /\ CatalogInit /\ SchemaIdle /\ PlanIdle

NextLife ==
    \E t \in Callers :
        \/ Call(t)
        \/ CheckPool(t)
        \/ EnterLock(t)
        \/ InitializePool(t)
        \/ AcquireFromPool(t)
        \/ ClosePoolCall(t)
        \/ ClosePoolDone(t)

SpecLife == InitLife /\ [][NextLife]_vars

LiveStep(t) ==
    \/ Runs(t) /\ CheckPool(t)
    \/ Runs(t) /\ EnterLock(t)
    \/ Runs(t) /\ Construct(t)
    \/ Runs(t) /\ AcquireOrWait(t)
    \/ Runs(t) /\ Release(t)

NextLive ==
    \E t \in Callers :
        \/ Runs(t) /\ CheckPool(t)
        \/ Runs(t) /\ EnterLock(t)
        \/ Runs(t) /\ Construct(t)
        \/ Runs(t) /\ AcquireOrWait(t)
        \/ Runs(t) /\ Release(t)

(* Fair scheduling: a task that can run is run. *)
SpecLive == InitPool /\ [][NextLive]_vars /\ \A t \in Callers : WF_vars(LiveStep(t))

InitSchema ==
    /\ es_call = NoOperation
    /\ op_thick \in BOOLEAN
    /\ op_target \in TargetSchemas
    /\ op_call = [op |-> "none", args |-> <<>>]
    /\ op_db = Script([acquire |-> NotConnected])
    /\ op_out = NoCall
    /\ RankIdle /\ FallbackIdle /\ CatalogInit /\ PoolIdle /\ PlanIdle

NextSchema ==
    \/ BeginOperation
    \/ ConnectionAcquired
    \/ ExecuteScoped
    \/ CloseConnection
    \/ SetTargetSchema

SpecSchema == InitSchema /\ [][NextSchema]_vars

InitPlan ==
    /\ PlanInit
    /\ op_thick \in BOOLEAN
    /\ op_target = None
    /\ op_call = [op |-> "none", args |-> <<>>]
    /\ op_db = Script([acquire |-> NotConnected])
    /\ op_out = NoCall
    /\ RankIdle /\ FallbackIdle /\ CatalogInit /\ PoolIdle /\ SchemaIdle

NextPlan == ExplainQueryPlanOnSession

SpecPlan == InitPlan /\ [][NextPlan]_vars

(***************************************************************************)
(* Claims about the ranking (checked under SpecRank).                      *)
(***************************************************************************)
Ranked == rk_pc = "ranked"

NamesAndScores(results) ==
    [i \in 1..Len(results) |-> <<results[i].name, results[i].score>>]

(* C9: the list returned by _filter_by_similarity is ordered by score      *)
(* non-increasing, two kept candidates with equal scores keep their input  *)
(* order, and rank(["ORDER","ORDERS","PRODUCT"], "ORDER") is               *)
(* [("ORDER",1.0), ("ORDERS",1.0)] in that order.                          *)
C9_SortedStable ==
    Ranked =>
        /\ \A i, j \in 1..Len(rk_results) :
              i < j =>
                /\ ScoreGeq(rk_results[i].score, rk_results[j].score)
                /\ ScoreEq(rk_results[i].score, rk_results[j].score)
                      => rk_results[i].pos < rk_results[j].pos
        /\ (rk_items = <<ORDER, ORDERS, PRODUCT>> /\ rk_term = ORDER)
              => NamesAndScores(rk_results) = <<<<ORDER, One>>, <<ORDERS, One>>>>

(* A call whose result holds a tie below 1.0 and was reordered by the sort. *)
C9_Witness ==
    /\ Ranked
    /\ \E i, j \in 1..Len(rk_results) :
          /\ i < j
          /\ ScoreEq(rk_results[i].score, rk_results[j].score)
          /\ ~ScoreEq(rk_results[i].score, One)
    /\ \E i, j \in 1..Len(rk_results) : i < j /\ rk_results[i].pos > rk_results[j].pos

(* C10: an occurrence of a candidate is kept exactly when the uppercased   *)
(* term is a substring of the uppercased candidate (score exactly 1.0) or  *)
(* its case-insensitive ratio is at least the threshold (score = that      *)
(* ratio); each occurrence is returned at most once, nothing else is       *)
(* returned, every score lies in [threshold, 1]; rank(["abc"], "abc") is   *)
(* [("abc",1.0)] and rank(["xyz"], "abc") is empty.                        *)
C10_KeptIff ==
    Ranked =>
        /\ \A p \in 1..Len(rk_items) :
              LET sub   == IsSubstring(Upper(rk_term), Upper(rk_items[p]))
                  ratio == SequenceMatcherRatio(Upper(rk_items[p]), Upper(rk_term))
                  at    == {i \in 1..Len(rk_results) : rk_results[i].pos = p}
              IN /\ Cardinality(at) = (IF sub \/ ScoreGeq(ratio, Threshold) THEN 1 ELSE 0)
                 /\ \A i \in at :
                       /\ rk_results[i].name = rk_items[p]
                       /\ rk_results[i].score = (IF sub THEN One ELSE ratio)
        /\ \A i \in 1..Len(rk_results) :
              /\ rk_results[i].pos \in 1..Len(rk_items)
              /\ ScoreGeq(rk_results[i].score, Threshold)
              /\ ScoreGeq(One, rk_results[i].score)
        /\ (rk_items = <<abc>> /\ rk_term = abc)
              => NamesAndScores(rk_results) = <<<<abc, One>>>>
        /\ (rk_items = <<xyz>> /\ rk_term = abc) => rk_results = <<>>

(* A call that keeps one candidate by substring, keeps one by ratio and    *)
(* drops one.                                                              *)
C10_Witness ==
    /\ Ranked
    /\ Len(rk_items) = 3
    /\ Len(rk_results) = 2
    /\ \E i \in 1..2 : rk_results[i].score = One
    /\ \E i \in 1..2 : ~ScoreEq(rk_results[i].score, One)

(***************************************************************************)
(* Claims about _execute_with_fallback (checked under SpecFallback).       *)
(***************************************************************************)
FallbackCalled == fb_out.kind # "none"

RaisedDenied(out) ==
    /\ out.kind = "raise"
    /\ IsDatabaseError(out.exc)
    /\ out.exc.code = InsufficientPrivileges

(* C3: when the privileged query fails with code 1031 and the restricted   *)
(* query succeeds, _execute_with_fallback returns exactly the rows of the  *)
(* restricted query, in the order the restricted query produced them.      *)
C3_ReturnsRestrictedRows ==
    (FallbackCalled /\ fb_all = Denied /\ fb_user.ok)
        => (fb_out.kind = "return" /\ fb_out.val = fb_user.rows)

(* A denied privileged query followed by a restricted query that returned  *)
(* two different rows.                                                     *)
C3_Witness ==
    /\ FallbackCalled
    /\ fb_all = Denied
    /\ fb_user = OkRows(<<<<"r2">>, <<"r1">>>>)
    /\ fb_out.kind = "return"

(* C4: when both queries fail with code 1031, _execute_with_fallback       *)
(* returns an empty sequence and raises nothing; it never raises an        *)
(* insufficient-privileges error to its caller.                            *)
C4_BothDeniedIsEmpty ==
    FallbackCalled =>
        /\ (fb_all = Denied /\ fb_user = Denied)
              => (fb_out.kind = "return" /\ fb_out.val = <<>>)
        /\ ~RaisedDenied(fb_out)

(* Both tiers were run and both were denied. *)
C4_Witness ==
    /\ FallbackCalled
    /\ fb_all = Denied
    /\ fb_user = Denied
    /\ fb_out.log = <<"all_query", "user_query">>

(* C5: when the privileged query fails with anything other than code 1031, *)
(* that same failure is raised and the restricted query is not run; the    *)
(* restricted query is run at most once, and only after a denied           *)
(* privileged query.                                                       *)
C5_OtherFailurePropagates ==
    FallbackCalled =>
        /\ (~fb_all.ok /\ fb_all # Denied)
              => /\ fb_out.kind = "raise"
                 /\ fb_out.exc = fb_all.exc
                 /\ Count(fb_out.log, "user_query") = 0
        /\ Count(fb_out.log, "all_query") = 1
        /\ Count(fb_out.log, "user_query") <= 1
        /\ Count(fb_out.log, "user_query") = 1 => fb_all = Denied

(* A privileged query that failed with another ORA- code while the         *)
(* restricted query would have succeeded.                                  *)
C5_Witness ==
    /\ FallbackCalled
    /\ fb_all = OtherDbError
    /\ fb_user.ok
    /\ fb_user.rows # <<>>
    /\ fb_out.kind = "raise"

(* C28: when the privileged query is denied and the restricted query fails *)
(* with a failure other than insufficient-privileges,                      *)
(* _execute_with_fallback raises the restricted query's failure: it        *)
(* returns neither an empty result nor the privileged query's              *)
(* permission-denied error.                                                *)
C28_RestrictedFailureIsRaised ==
    (FallbackCalled /\ fb_all = Denied /\ ~fb_user.ok /\ fb_user # Denied)
        => /\ fb_out.kind = "raise"
           /\ fb_out.exc = fb_user.exc
           /\ fb_out.exc # fb_all.exc
           /\ fb_out.log = <<"all_query", "user_query">>

(* The restricted query failed with another ORA- code, and with an error   *)
(* that is no DatabaseError, after a denied privileged query.              *)
C28_Witness ==
    /\ FallbackCalled
    /\ fb_all = Denied
    /\ fb_user \in {OtherDbError, NotConnected}
    /\ fb_out.kind = "raise"
    /\ fb_out.exc = fb_user.exc

(***************************************************************************)
(* Claims about the exposed operations (checked under SpecOps).            *)
(***************************************************************************)
OpCalled == op_call.op # "none"

(* C2: for every exposed operation and every exit path (normal return,     *)
(* empty or absent result, exception from any query) the connection        *)
(* obtained from get_connection is released exactly once (conn.close() is  *)
(* called once); when the acquisition fails no release is attempted.       *)
C2_ReleasedExactlyOnce ==
    OpCalled =>
        /\ Count(op_out.log, "acquire") = 1
        /\ Count(op_out.log, "close") = (IF Acquire(op_db).ok THEN 1 ELSE 0)
        /\ Acquire(op_db).ok => op_out.log[Len(op_out.log)] = "close"

(* load_table_details left through `return None`, and through an exception *)
(* of the column query, with the connection released.                      *)
C2_Witness ==
    /\ OpCalled
    /\ op_call.op = "load_table_details"
    /\ Acquire(op_db).ok
    /\ \/ op_out.kind = "return" /\ op_out.val = None
       \/ op_out.kind = "raise" /\ op_out.log[Len(op_out.log) - 1] = "columns_query"
    /\ Count(op_out.log, "close") = 1

SameOutcome(x, y) ==
    /\ x.kind = y.kind
    /\ x.kind = "return" => x.val = y.val
    /\ x.kind = "raise" => x.exc.cls = y.exc.cls

(* C6: for every exposed operation and every sequence of driver answers, a *)
(* connector in thick (synchronous) mode and one in thin (cooperative)     *)
(* mode return the same result or raise the same type of error.            *)
C6_ModesAgree ==
    OpCalled => SameOutcome(op_out, Handler(op_call, ~op_thick, op_target, op_db))

(* load_table_details is called, and its existence / type check yields no  *)
(* rows: the privileged query finds none, or it is denied and the          *)
(* restricted one finds none or is denied as well.                         *)
ExistenceCheckIsEmpty ==
    /\ op_call.op = "load_table_details"
    /\ Acquire(op_db).ok
    /\ LET all == Execute(op_db, "object_check_query", 1, <<>>)
           user == Execute(op_db, "user_object_check_query", 1, <<>>)
       IN \/ all = OkRows(<<>>)
          \/ all = Denied /\ user \in {OkRows(<<>>), Denied}

(* C11: load_table_details returns None without raising whenever the       *)
(* existence / type check yields no rows (the object does not exist, or    *)
(* both tiers of the fallback were denied); no column query and no         *)
(* relationship query is executed, and the connection is released.         *)
C11_AbsentIsNone ==
    ExistenceCheckIsEmpty =>
        /\ op_out.kind = "return"
        /\ op_out.val = None
        /\ Count(op_out.log, "columns_query") = 0
        /\ Count(op_out.log, "relationships_query") = 0
        /\ Count(op_out.log, "close") = 1

(* Both tiers denied, and None returned. *)
C11_Witness ==
    /\ ExistenceCheckIsEmpty
    /\ Execute(op_db, "object_check_query", 1, <<>>) = Denied
    /\ Execute(op_db, "user_object_check_query", 1, <<>>) = Denied
    /\ op_out.kind = "return"
    /\ op_out.val = None

(* load_table_details is called for an object that its existence / type    *)
(* check reports as a VIEW.                                                *)
ObjectIsView ==
    /\ op_call.op = "load_table_details"
    /\ Acquire(op_db).ok
    /\ LET all == Execute(op_db, "object_check_query", 1, <<>>)
           user == Execute(op_db, "user_object_check_query", 1, <<>>)
       IN \/ all = OkRows(<<<<"VIEW">>>>)
          \/ all = Denied /\ user = OkRows(<<<<"VIEW">>>>)

(* C12: for an object whose type is not TABLE (a VIEW) load_table_details  *)
(* never executes the relationship query, and what it returns has an empty *)
(* relationship map, whatever rows that query would have produced.         *)
C12_ViewHasNoRelationships ==
    ObjectIsView =>
        /\ Count(op_out.log, "relationships_query") = 0
        /\ op_out.kind = "return" =>
               /\ op_out.val.some
               /\ op_out.val.v.object_type = "VIEW"
               /\ DOMAIN op_out.val.v.relationships = {}

(* A view whose name has constraint rows: the relationship statement would *)
(* return rows, and the details come back with no relationship.            *)
C12_Witness ==
    /\ ObjectIsView
    /\ Execute(op_db, "relationships_query", 1, <<>>).ok
    /\ Execute(op_db, "relationships_query", 1, <<>>).rows # <<>>
    /\ op_out.kind = "return"
    /\ Len(op_out.val.v.columns) > 0
    /\ DOMAIN op_out.val.v.relationships = {}

(* C13: a permission-denied failure (ORA-01031) of the table / view        *)
(* enumeration, of the existence / type check, of the column enumeration   *)
(* or of the relationship query degrades to the restricted query and then  *)
(* to an empty result: it is never raised to the caller of                 *)
(* get_all_table_names, search_in_database or load_table_details.          *)
C13_DenialIsNeverRaised ==
    op_call.op \in {"get_all_table_names", "search_in_database", "load_table_details"} =>
        ~(/\ op_out.kind = "raise"
          /\ op_out.exc = DatabaseError(InsufficientPrivileges))

(* The database of the call, were its conn.close() to succeed. *)
WithCloseSucceeding(db) == [db EXCEPT !.r.close = OkDone]

(* C17: an error raised while releasing the connection is suppressed and   *)
(* never alters the operation's outcome: the operation returns the value,  *)
(* or raises the exception, that it would have had the release succeeded.  *)
C17_ReleaseErrorIsSuppressed ==
    (OpCalled /\ Acquire(op_db).ok) =>
        LET released == Handler(op_call, op_thick, op_target, WithCloseSucceeding(op_db)) IN
        /\ op_out.kind = released.kind
        /\ op_out.kind = "return" => op_out.val = released.val
        /\ op_out.kind = "raise" => op_out.exc = released.exc

(* conn.close() raises after an operation whose body returned, and after   *)
(* one whose body raised a database error.                                 *)
C17_Witness ==
    /\ OpCalled
    /\ Acquire(op_db).ok
    /\ ~Close(op_db).ok
    /\ \/ op_call.op = "get_table_indexes" /\ op_out.kind = "return" /\ op_out.val # <<>>
       \/ op_call.op = "get_dependent_objects" /\ op_out.kind = "raise"
                                               /\ op_out.exc = DatabaseError(942)

(* The names of the ranked list search_in_database slices. *)
RankedNames(object_names, search_term) ==
    LET matched_objects == _filter_by_similarity(object_names, search_term, Threshold) IN
    [i \in 1..Len(matched_objects) |-> matched_objects[i].name]

(* The rows the enumeration of search_in_database yields. *)
SearchedObjects ==
    LET all == Execute(op_db, "all_objects_query", 1, <<>>)
        user == Execute(op_db, "user_objects_query", 1, <<>>)
    IN IF all.ok THEN all.rows
       ELSE IF all = Denied /\ user.ok THEN user.rows
       ELSE <<>>

(* C20: search_in_database returns the names of the leading entries of the *)
(* ranked list, in rank order, and never more than `limit` names (none for *)
(* a limit below 1), for every limit and every set of object names; when   *)
(* both tiers of the fallback are denied it returns an empty list.         *)
C20_AtMostLimitNames ==
    (op_call.op = "search_in_database" /\ Acquire(op_db).ok) =>
        LET limit == op_call.args[2]
            ranked == RankedNames(Column(SearchedObjects, 1), op_call.args[1])
        IN /\ op_out.kind = "return" =>
                 /\ Len(op_out.val) <= Max({limit, 0})
                 /\ Len(op_out.val) <= Len(ranked)
                 /\ op_out.val = SubSeq(ranked, 1, Len(op_out.val))
           /\ (/\ Execute(op_db, "all_objects_query", 1, <<>>) = Denied
               /\ Execute(op_db, "user_objects_query", 1, <<>>) = Denied)
                  => op_out.kind = "return" /\ op_out.val = <<>>

(* The driver's answer to the call the log names; the two tiers of the     *)
(* existence check of load_table_details are logged as all_query and       *)
(* user_query.                                                             *)
AnswerTo(label) ==
    IF label = "commit" THEN Commit(op_db)
    ELSE IF label = "clob.read" THEN Execute(op_db, "clob_read", 1, <<>>)
    ELSE IF label = "all_query" THEN Execute(op_db, "object_check_query", 1, <<>>)
    ELSE IF label = "user_query" THEN Execute(op_db, "user_object_check_query", 1, <<>>)
    ELSE Execute(op_db, label, 1, <<>>)

(* The database errors the body of the operation met, but for a            *)
(* permission-denied answer to a tier of the fallback, which the fallback  *)
(* deals with.                                                             *)
ErrorsMet ==
    {AnswerTo(label).exc :
        label \in {l \in Range(op_out.log) \ {"acquire", "close"} :
                      /\ ~AnswerTo(l).ok
                      /\ IsOracleError(AnswerTo(l).exc)
                      /\ ~(l \in {"all_query", "user_query"} /\ AnswerTo(l) = Denied)}}

RestrictedQuery(op) ==
    IF op = "load_table_details" THEN "user_object_check_query" ELSE "user_objects_query"

DegradedToRestricted ==
    /\ op_call.op \in {"get_all_table_names", "search_in_database", "load_table_details"}
    /\ Count(op_out.log, "user_query") = 1

(* C21: when _execute_with_fallback degrades to the restricted query, the  *)
(* bound parameters passed to the restricted query are only those the      *)
(* restricted query declares (the owner parameter is not among them), in   *)
(* get_all_table_names, search_in_database and the existence check of      *)
(* load_table_details.                                                     *)
C21_RestrictedQueryWithoutOwner ==
    DegradedToRestricted =>
        LET schema == _get_effective_schema(op_target, Acquire(op_db).conn)
            params == FallbackParams(op_call.op, schema, op_call.args)
        IN /\ "owner" \notin DOMAIN params
           /\ DOMAIN params \subseteq DeclaredBinds(RestrictedQuery(op_call.op))

(***************************************************************************)
(* Claims about the relationships (checked under SpecRel).                 *)
(***************************************************************************)
DetailsLoaded ==
    /\ op_call.op = "load_table_details"
    /\ op_db.kind = "catalog"
    /\ op_out.kind = "return"
    /\ op_out.val.some

(* The tables load_table_details reports an OUTGOING entry to. *)
OutgoingTables(details) ==
    {t \in DOMAIN details.relationships :
        \E i \in 1..Len(details.relationships[t]) :
            details.relationships[t][i].direction = "OUTGOING"}

(* C7: if load_table_details(A) reports an OUTGOING relationship entry to  *)
(* table B, then get_related_tables(A) returns without error and its       *)
(* referenced_tables contains B, whatever the schema of B.                 *)
C7_OutgoingIsReferenced ==
    DetailsLoaded =>
        \A B \in OutgoingTables(op_out.val.v) :
            LET related == get_related_tables(op_thick, op_target, op_call.args[1], op_db) IN
            /\ related.kind = "return"
            /\ B \in Range(related.val.referenced_tables)

(* C8: if load_table_details(A) reports an OUTGOING relationship entry to  *)
(* table B, then get_related_tables(B) returns without error and its       *)
(* referencing_tables contains A.                                          *)
C8_OutgoingIsReferencing ==
    DetailsLoaded =>
        \A B \in OutgoingTables(op_out.val.v) :
            LET related == get_related_tables(op_thick, op_target, B, op_db) IN
            /\ related.kind = "return"
            /\ Upper(op_call.args[1]) \in Range(related.val.referencing_tables)

(* load_table_details reports, under the table's name, an entry with these *)
(* columns and this direction.                                             *)
HasEntry(details, table, local, foreign, direction) ==
    /\ table \in DOMAIN details.relationships
    /\ \E i \in 1..Len(details.relationships[table]) :
          details.relationships[table][i] =
              [local_column |-> local, foreign_column |-> foreign, direction |-> direction]

(* The names of the tables of the effective schema. *)
SchemaTables ==
    {t.name : t \in {t \in DictionaryTables :
                        t.owner = _get_effective_schema(op_target, [username |-> Username])}}

ColumnNames == {c.name : c \in DictionaryColumns}

(* C23: within load_table_details the two query directions agree: for      *)
(* tables A and B in the effective schema, load_table_details(A) reports   *)
(* an OUTGOING entry under B with (local_column c, foreign_column d) if    *)
(* and only if load_table_details(B) reports an INCOMING entry under A     *)
(* with (local_column d, foreign_column c).                                *)
C23_DirectionsAgree ==
    DetailsLoaded =>
        \A B \in SchemaTables :
            LET A == Upper(op_call.args[1])
                of_B == load_table_details(op_thick, op_target, B, op_db)
            IN /\ of_B.kind = "return"
               /\ of_B.val.some
               /\ \A c, d \in ColumnNames :
                     HasEntry(op_out.val.v, B, c, d, "OUTGOING")
                         <=> HasEntry(of_B.val.v, A, d, c, "INCOMING")

(* The key a foreign key references. *)
ReferencedKey(fk) ==
    CHOOSE k \in catalog.constraints : k.owner = fk.r_owner /\ k.name = fk.r_name

ForeignKeys == {c \in catalog.constraints : c.type = "R"}

(* The column pairs, one per key position, of the foreign keys of the      *)
(* loaded table that reference a table named B, and of the foreign keys of *)
(* tables named B that reference the loaded table.                         *)
OutgoingPairs(schema, A, B) ==
    {<<fk, p>> \in ForeignKeys \X (1..2) :
        /\ fk.owner = schema /\ fk.table = A
        /\ ReferencedKey(fk).table = B
        /\ p <= Len(fk.columns)}

IncomingPairs(schema, A, B) ==
    {<<fk, p>> \in ForeignKeys \X (1..2) :
        /\ fk.table = B
        /\ ReferencedKey(fk).owner = schema /\ ReferencedKey(fk).table = A
        /\ p <= Len(fk.columns)}

EntriesOf(details, table, direction) ==
    IF table \in DOMAIN details.relationships
    THEN SelectSeq(details.relationships[table], LAMBDA e : e.direction = direction)
    ELSE <<>>

(* C24: for a foreign key made of k columns, load_table_details reports    *)
(* exactly k relationship entries for that key under the related table's   *)
(* name, each pairing a local column with the referenced column at the     *)
(* same key position and carrying that key's direction tag; entries of     *)
(* OUTGOING and INCOMING keys to the same table (including a               *)
(* self-reference) are kept as separate, correctly tagged entries.         *)
C24_OneEntryPerKeyColumn ==
    DetailsLoaded =>
        LET A == Upper(op_call.args[1])
            schema == _get_effective_schema(op_target, [username |-> Username])
            details == op_out.val.v
        IN \A B \in {t.name : t \in DictionaryTables} :
              LET outgoing == EntriesOf(details, B, "OUTGOING")
                  incoming == EntriesOf(details, B, "INCOMING")
              IN /\ Len(outgoing) = Cardinality(OutgoingPairs(schema, A, B))
                 /\ Len(incoming) = Cardinality(IncomingPairs(schema, A, B))
                 /\ \A i \in 1..Len(outgoing) :
                       \E x \in OutgoingPairs(schema, A, B) :
                           /\ outgoing[i].local_column = x[1].columns[x[2]]
                           /\ outgoing[i].foreign_column = ReferencedKey(x[1]).columns[x[2]]
                 /\ \A i \in 1..Len(incoming) :
                       \E x \in IncomingPairs(schema, A, B) :
                           /\ incoming[i].local_column = ReferencedKey(x[1]).columns[x[2]]
                           /\ incoming[i].foreign_column = x[1].columns[x[2]]

(***************************************************************************)
(* Claims about the pool (checked under SpecPool).                         *)
(***************************************************************************)
ConstructionSucceeds == \A i \in 1..Len(pl_created) : pl_created[i].ok

(* C1: if N callers invoke get_connection concurrently while the pool is   *)
(* absent and pool construction succeeds, then under every interleaving    *)
(* create_pool / create_pool_async is invoked a single time, and every     *)
(* caller acquires from that same pool.                                    *)
C1_ConstructedOnce ==
    ConstructionSucceeds =>
        /\ Len(pl_created) <= 1
        /\ \A t \in Callers :
              pl_pc[t] \in {"acquire", "returned"} =>
                  /\ Len(pl_created) = 1
                  /\ _pool = Some(1)
        /\ \A t \in Callers : pl_pc[t] = "returned" => pl_conn[t] = Some(1)

(* Every caller found the pool absent and called initialize_pool, and      *)
(* every caller has its connection.                                        *)
C1_Witness ==
    /\ pl_entered = Callers
    /\ NumCallers >= 2
    /\ ConstructionSucceeds
    /\ Len(pl_created) = 1
    /\ \A t \in Callers : pl_pc[t] = "returned" /\ pl_conn[t] = Some(1)

(* The constructions the caller t attempted. *)
AttemptsOf(t) == {i \in 1..Len(pl_created) : pl_created[i].by = t}

(* C18: a pool construction that fails is raised to the caller of          *)
(* get_connection after exactly one attempt (no retry), the pool stays     *)
(* absent and the lock is released: a later caller is not blocked by the   *)
(* failure and makes its own single attempt.                               *)
C18_FailedConstructionIsRaised ==
    /\ \A t \in Callers : Cardinality(AttemptsOf(t)) <= 1
    /\ \A i \in 1..Len(pl_created) :
          ~pl_created[i].ok =>
              /\ pl_pc[pl_created[i].by] = "raised"
              /\ pl_conn[pl_created[i].by] = None
    /\ (\A i \in 1..Len(pl_created) : ~pl_created[i].ok) => _pool = None
    /\ \A t \in Callers : _pool_lock = Some(t) => pl_pc[t] = "locked"
    /\ \A t \in Callers :
          (pl_pc[t] = "lock" /\ \A u \in Callers : pl_pc[u] # "locked") => ENABLED EnterLock(t)

(* A construction failed, its caller had the error, and a later caller     *)
(* took the lock and made its own attempt.                                 *)
C18_Witness ==
    /\ Len(pl_created) >= 2
    /\ ~pl_created[1].ok
    /\ pl_pc[pl_created[1].by] = "raised"
    /\ pl_created[2].by # pl_created[1].by
    /\ _pool_lock = None

(***************************************************************************)
(* Claims about the life of the pool (checked under SpecLife).             *)
(***************************************************************************)
(* The pools constructed and not closed. *)
LivePools == {i \in 1..Len(pl_created) : pl_created[i].ok /\ ~IsClosed(pl_closed, Some(i))}

(* C14: at any time at most one live pool (constructed and not yet closed) *)
(* exists per connector, under every interleaving of get_connection,       *)
(* initialize_pool and close_pool calls, and the connector never drops its *)
(* reference to a pool that has not been closed.                           *)
C14_AtMostOneLivePool ==
    /\ Cardinality(LivePools) <= 1
    /\ \A i \in LivePools : _pool = Some(i)

(* The state of the connector's pool.  The methods keep only self._pool,   *)
(* None or the pool: a pool under construction exists only inside          *)
(* initialize_pool, which constructs and assigns it without suspending, so *)
(* absent -> initializing -> ready is one step of the lock's holder.       *)
PoolState ==
    IF _pool # None THEN "ready"
    ELSE IF \E i \in 1..Len(pl_closed) : pl_closed[i].res = "ok" THEN "closed"
    ELSE "absent"

(* A construction is attempted in this step. *)
Constructs == Len(pl_created') = Len(pl_created) + 1

ConstructedByLockHolder ==
    /\ Constructs
    /\ _pool_lock = Some(pl_created'[Len(pl_created')].by)

(* C15: the pool's state only follows absent -> initializing -> ready ->   *)
(* closed, for every sequence of get_connection, initialize_pool and       *)
(* close_pool calls: initializing is entered only from absent and only by  *)
(* the holder of the exclusive lock (a construction that fails leaves the  *)
(* pool absent), ready is entered only from initializing, and closed only  *)
(* from ready, by the close of the pool that was ready.                    *)
C15_LifecycleOnly ==
    [][ /\ Constructs => (PoolState = "absent" /\ ConstructedByLockHolder)
        /\ PoolState' # PoolState =>
              \/ /\ PoolState = "absent" /\ PoolState' = "ready"
                 /\ ConstructedByLockHolder
                 /\ _pool' = Some(Len(pl_created'))
              \/ /\ PoolState = "ready" /\ PoolState' = "closed"
                 /\ IsClosed(pl_closed', _pool)
      ]_vars

(* The task t leaves the first line of close_pool in this step. *)
ClosePoolEntered(t) ==
    pl_pc[t] = "called" /\ pl_op[t] = "close_pool" /\ pl_pc'[t] # "called"

(* It called close() on the pool. *)
CloseInvoked(t) == pl_pc'[t] = "closing" \/ Len(pl_closed') > Len(pl_closed)

(* The close() calls on the pool object that have come back. *)
ClosesOf(pool) == {i \in 1..Len(pl_closed) : pl_closed[i].pool = pool}

NoOpWhenAbsent ==
    \A t \in Callers :
        (ClosePoolEntered(t) /\ _pool = None) =>
            /\ ~CloseInvoked(t)
            /\ pl_pc'[t] = "returned"
            /\ UNCHANGED <<_pool, _pool_lock, pl_pool, pl_conn, pl_created, pl_closed>>

CloseNeverRaises == \A t \in Callers : pl_op[t] = "close_pool" => pl_pc[t] # "raised"

(* C16, as stated: close_pool is idempotent.  Called when the pool is      *)
(* absent or already closed it makes no driver call, changes no state and  *)
(* raises nothing; of two consecutive close_pool calls on a ready pool the *)
(* first calls the pool's close() and the second does not: no close() is   *)
(* called on a pool after a close_pool call on it has come back.           *)
C16_ClosedExactlyOnce ==
    /\ []CloseNeverRaises
    /\ [][ /\ NoOpWhenAbsent
           /\ \A t \in Callers :
                 (ClosePoolEntered(t) /\ _pool # None) =>
                     (CloseInvoked(t) /\ ClosesOf(_pool) = {})
         ]_vars

(* C16, amended: as above, but the second of two consecutive close_pool    *)
(* calls makes no close() call provided the close() of the first returned  *)
(* normally; when it raised, the pool is kept and the second call calls    *)
(* close() again.                                                          *)
C16_ClosedOnceWhenCloseSucceeds ==
    /\ []CloseNeverRaises
    /\ [][ /\ NoOpWhenAbsent
           /\ \A t \in Callers :
                 (ClosePoolEntered(t) /\ _pool # None) =>
                     (CloseInvoked(t) /\ ~IsClosed(pl_closed, _pool))
         ]_vars

(* Two close_pool calls have returned, close() was called once, on the     *)
(* pool that was ready, and returned: the other call found no pool.        *)
C16_Witness ==
    /\ \E t, u \in Callers :
          /\ t # u
          /\ pl_op[t] = "close_pool" /\ pl_pc[t] = "returned"
          /\ pl_op[u] = "close_pool" /\ pl_pc[u] = "returned"
    /\ Len(pl_created) = 1
    /\ pl_closed = << [pool |-> Some(1), res |-> "ok"] >>
    /\ _pool = None

(* The lock is held by a caller that is inside initialize_pool. *)
LockHeldInInitializePool ==
    \A t \in Callers : _pool_lock = Some(t) => (pl_pc[t] = "locked" /\ t \in pl_entered)

(* A caller that acquires or releases a connection can do so whoever holds *)
(* the lock: it waits only for its turn to run and for a free connection.  *)
NotBlockedOnLock ==
    \A t \in Callers :
        /\ (/\ pl_pc[t] = "acquire"
            /\ Runs(t)
            /\ Cardinality(CheckedOut(pl_pool[t])) < MaxPoolSize) => ENABLED AcquireOrWait(t)
        /\ (pl_pc[t] = "returned" /\ Runs(t)) => ENABLED Release(t)

(* C22: the initialization lock is held only during the check-and-create   *)
(* step of initialize_pool: once the pool is ready, get_connection and     *)
(* release never acquire the lock, and no caller that merely acquires or   *)
(* releases a connection is ever blocked on it.                            *)
C22_LockOnlyInInitializePool ==
    /\ [](LockHeldInInitializePool /\ NotBlockedOnLock)
    /\ [][ \A t \in Callers :
              /\ (pl_pc[t] = "called" /\ _pool # None /\ pl_pc'[t] # "called") =>
                     (pl_pc'[t] = "acquire" /\ t \notin pl_entered' /\ UNCHANGED _pool_lock)
              /\ (pl_pc[t] \in {"acquire", "returned"} /\ pl_pc'[t] # pl_pc[t]) =>
                     UNCHANGED _pool_lock
              /\ (_pool_lock' = Some(t) /\ _pool_lock # Some(t)) => pl_pc[t] = "lock"
         ]_vars

(* A caller that found the pool ready is about to acquire a connection     *)
(* while another caller holds the lock, and a third has its connection.    *)
C22_Witness ==
    \E t, u, w \in Callers :
        /\ _pool_lock = Some(u)
        /\ pl_pc[t] = "acquire" /\ t \notin pl_entered
        /\ pl_pc[w] = "returned"
        /\ ENABLED AcquireOrWait(t)
        /\ ENABLED Release(w)

(***************************************************************************)
(* Claims about the callers' progress (checked under SpecLive).            *)
(***************************************************************************)
(* C19: every caller of get_connection eventually obtains a connection:    *)
(* the callers that arrive before the first initialization, and the        *)
(* callers that arrive while all connections of the pool are checked out,  *)
(* wait rather than fail and eventually proceed, provided pool             *)
(* construction succeeds, every query terminates and scheduling is fair.   *)
C19_EveryCallerGetsAConnection ==
    \A t \in Callers : (pl_pc[t] = "called") ~> (pl_pc[t] = "returned" /\ pl_conn[t] # None)

(* Every caller arrived before the pool was constructed, and one of them   *)
(* waits in acquire() while every connection of the pool is checked out.   *)
C19_Witness ==
    /\ pl_entered = Callers
    /\ \E t \in Callers :
          /\ pl_pc[t] = "acquire"
          /\ Cardinality(CheckedOut(pl_pool[t])) = MaxPoolSize
          /\ ~ENABLED AcquireOrWait(t)

(***************************************************************************)
(* Claims about the effective schema (checked under SpecSchema).           *)
(***************************************************************************)
OverrideIsSet == op_target.some /\ op_target.v # <<>>

ResolvedNow == IF OverrideIsSet THEN Upper(op_target.v) ELSE Upper(Username)

PlanCallSucceeded ==
    /\ pt_call.out.kind = "return"
    /\ pt_call.out.val.error = None

(* C25: for any sequence of explain_query_plan calls on pooled             *)
(* connections, including calls that fail after their EXPLAIN PLAN         *)
(* statement ran, the execution_plan returned by a successful call         *)
(* contains only the plan rows generated for that call's own query: the    *)
(* plan table of the session is empty whenever a call begins and empty     *)
(* again when it ends.                                                     *)
C25_PlanOfOwnQueryOnly ==
    /\ \A s \in PoolSessions : pt_session[s].visible = {}
    /\ pt_call.begin = {}
    /\ PlanCallSucceeded => Range(pt_call.out.val.execution_plan) = {pt_call.query}

(* A successful call on a session on which an earlier call failed after    *)
(* its EXPLAIN PLAN statement had run.                                     *)
C25_Witness ==
    /\ PlanCallSucceeded
    /\ pt_call.after_failure
    /\ pt_call.out.val.execution_plan = <<pt_call.query>>

====
